---- MODULE Spec2Model ----
(***************************************************************************)
(* StellarOS: the AArch64 translation-table engine (src/src/arch/aarch64/  *)
(* mmu.rs), the address / range / page types (src/src/memory.rs) and the   *)
(* loader's bump page allocator and boot sequence (src/bigbang/src/main.rs).*)
(*                                                                         *)
(* usize / u64 values are 64 bits wide.  A word is kept as three limbs     *)
(* <<hi, mid, lo>> = bits 63..48, 47..24, 23..0, and every operation on    *)
(* words is computed limb by limb, so that truncation and wrap-around are  *)
(* those of the machine.                                                   *)
(***************************************************************************)
EXTENDS Integers, Sequences, FiniteSets, TLC

VARIABLES
    METADATA,         \* static mut METADATA: [start, end, top]
    TTBR0_EL1,        \* translation-table base register, low half
    TTBR1_EL1,        \* translation-table base register, high half
    mem,              \* physical memory holding table pages: base -> (index -> descriptor)
    overflow_checks,  \* build profile: TRUE = arithmetic overflow panics, FALSE = it wraps
    granted,          \* Page handles returned by successful alloc_pages calls, in order
    held,             \* Page handles the client got from its own alloc_pages calls
    last,             \* the call that was made last, its arguments and its outcome
    boot,             \* the loader's main: its position, the registers it wrote, its inputs
    steps             \* how many steps the loader's main has executed

vars == <<METADATA, TTBR0_EL1, TTBR1_EL1, mem, overflow_checks, granted, held, last, boot, steps>>

-----------------------------------------------------------------------------
(* 64-bit words *)

W16 == 2^16
W24 == 2^24

Word(hi, mid, lo) == <<hi, mid, lo>>
Zero == <<0, 0, 0>>

\* a natural number below 2^31 as a word
FromNat(n) == <<0, n \div W24, n % W24>>

\* a word below 2^31 as a natural number (array indices)
ToNat(x) == x[2] * W24 + x[3]

IsSmall(x) == x[1] = 0 /\ x[2] < 64

Pow2(k) == 2^k

RECURSIVE BitAnd(_, _)
BitAnd(x, y) ==
    IF x = 0 \/ y = 0 THEN 0
    ELSE (IF x % 2 = 1 /\ y % 2 = 1 THEN 1 ELSE 0) + 2 * BitAnd(x \div 2, y \div 2)

RECURSIVE BitOr(_, _)
BitOr(x, y) ==
    IF x = 0 THEN y
    ELSE IF y = 0 THEN x
    ELSE (IF x % 2 = 1 \/ y % 2 = 1 THEN 1 ELSE 0) + 2 * BitOr(x \div 2, y \div 2)

AndW(x, y) == <<BitAnd(x[1], y[1]), BitAnd(x[2], y[2]), BitAnd(x[3], y[3])>>
OrW(x, y) == <<BitOr(x[1], y[1]), BitOr(x[2], y[2]), BitOr(x[3], y[3])>>

\* x + y in 64 bits, and whether the true sum needs a 65th bit
AddCarry(x, y) ==
    LET lo == x[3] + y[3]
        mid == x[2] + y[2] + (lo \div W24)
        hi == x[1] + y[1] + (mid \div W24)
    IN  [sum |-> <<hi % W16, mid % W24, lo % W24>>, carry |-> hi >= W16]

AddW(x, y) == AddCarry(x, y).sum

\* x - y in 64 bits: x + !y + 1
SubW(x, y) == AddW(AddW(x, <<W16 - 1 - y[1], W24 - 1 - y[2], W24 - 1 - y[3]>>), <<0, 0, 1>>)

\* unsigned comparison
GtW(x, y) ==
    \/ x[1] > y[1]
    \/ x[1] = y[1] /\ x[2] > y[2]
    \/ x[1] = y[1] /\ x[2] = y[2] /\ x[3] > y[3]

LeW(x, y) == ~GtW(x, y)
LtW(x, y) == GtW(y, x)

\* shifts by k <= 12 bits
ShlSmall(x, k) ==
    LET p == Pow2(k)
        q == Pow2(24 - k)
    IN  << (x[1] * p + x[2] \div q) % W16,
           (x[2] % q) * p + x[3] \div q,
           (x[3] % q) * p >>

ShrSmall(x, k) ==
    LET p == Pow2(k)
        q == Pow2(24 - k)
    IN  << x[1] \div p,
           x[2] \div p + (x[1] % p) * q,
           x[3] \div p + (x[2] % p) * q >>

RECURSIVE ShlW(_, _)
ShlW(x, k) == IF k <= 12 THEN ShlSmall(x, k) ELSE ShlW(ShlSmall(x, 12), k - 12)

RECURSIVE ShrW(_, _)
ShrW(x, k) == IF k <= 12 THEN ShrSmall(x, k) ELSE ShrW(ShrSmall(x, 12), k - 12)

\* bits shifted out at the top by x << k
ShlLoses(x, k) == ShrW(ShlW(x, k), k) # x

RECURSIVE Tz(_)
Tz(n) == IF n % 2 = 1 THEN 0 ELSE 1 + Tz(n \div 2)

\* usize::trailing_zeros
trailing_zeros(x) ==
    IF x[3] # 0 THEN Tz(x[3])
    ELSE IF x[2] # 0 THEN 24 + Tz(x[2])
    ELSE IF x[1] # 0 THEN 48 + Tz(x[1])
    ELSE 64

-----------------------------------------------------------------------------
(* Board configuration and register bit fields *)

\* MmuGranule::SHIFT of the 4 KiB granule; SIZE = 1 << SHIFT
SHIFT == 12

SIZE == ShlW(FromNat(1), SHIFT)

\* ENTRY_PER_TABLE = MmuGranule::SIZE >> 3
ENTRY_PER_TABLE == ToNat(ShrW(SIZE, 3))

\* (1 << numbits) - 1
Ones(numbits) ==
    << IF numbits > 48 THEN Pow2(numbits - 48) - 1 ELSE 0,
       IF numbits >= 48 THEN W24 - 1 ELSE IF numbits > 24 THEN Pow2(numbits - 24) - 1 ELSE 0,
       IF numbits >= 24 THEN W24 - 1 ELSE Pow2(numbits) - 1 >>

\* register::Field::val : (value & mask) << shift
FieldVal(f, x) == ShlW(AndW(x, Ones(f.nb)), f.off)

\* register read of a field : (reg & (mask << shift)) >> shift
FieldRead(f, reg) == ShrW(AndW(reg, ShlW(Ones(f.nb), f.off)), f.off)

\* FieldValue::matches_all : reg & (mask << shift) == value
MatchesAll(f, x, reg) == AndW(reg, ShlW(Ones(f.nb), f.off)) = FieldVal(f, FromNat(x))

\* STAGE1_TABLE_DESCRIPTOR
TD_NEXT_LEVEL_TABLE_ADDR == [off |-> SHIFT, nb |-> 48 - SHIFT]
TD_TYPE == [off |-> 1, nb |-> 1]
TD_VALID == [off |-> 0, nb |-> 1]

\* STAGE1_PAGE_DESCRIPTOR
PD_UXN == [off |-> 54, nb |-> 1]
PD_PXN == [off |-> 53, nb |-> 1]
PD_OUTPUT_ADDR == [off |-> SHIFT, nb |-> 48 - SHIFT]
PD_AF == [off |-> 10, nb |-> 1]
PD_SH == [off |-> 8, nb |-> 2]
PD_AP == [off |-> 6, nb |-> 2]
PD_AttrIndx == [off |-> 2, nb |-> 3]
PD_TYPE == [off |-> 1, nb |-> 1]
PD_VALID == [off |-> 0, nb |-> 1]

SH_OuterShareable == 2
SH_InnerShareable == 3
AP_RW_EL1 == 0
AP_RO_EL1 == 2
MAIR_DEVICE == 0
MAIR_NORMAL == 1

\* TTBRn_EL1.BADDR, bits 47..1
TTBR_BADDR == [off |-> 1, nb |-> 47]

\* TTBRn_EL1.set_baddr(addr) : write(BADDR.val(addr >> 1))
set_baddr(addr) == FieldVal(TTBR_BADDR, ShrW(addr, 1))

\* TTBRn_EL1.get_baddr() : read(BADDR) << 1
get_baddr(reg) == ShlW(FieldRead(TTBR_BADDR, reg), 1)

-----------------------------------------------------------------------------
(* memory.rs : addresses, ranges, attributes *)

MemAttributes == {"CacheableDRAM", "Device"}
AccessPermissions == {"ReadOnly", "ReadWrite"}
AttributeFields ==
    [mem_attributes : MemAttributes, acc_perms : AccessPermissions, execute_never : BOOLEAN]

\* IdentMapper::map_to_vaddr : Address::new(paddr.into_usize())
map_to_vaddr(paddr) == Word(paddr[1], paddr[2], paddr[3])

AddressRange(addr, size) == [addr |-> addr, size |-> size]

\* AddrMapper::map_to_vrange
map_to_vrange(prange) == AddressRange(map_to_vaddr(prange.addr), prange.size)

\* common::is_aligned : value & (alignment - 1) == 0, alignment a power of two
is_aligned(value, alignment) ==
    AndW(value, Ones(trailing_zeros(alignment))) = Zero

\* StepBy that takes the end of the range for one of its addresses
StepBy_inclusive(cur, end) ==
    IF GtW(cur, end) THEN <<>>
    ELSE [i \in 1..(ToNat(ShrW(SubW(end, cur), SHIFT)) + 1) |->
             AddW(cur, ShlW(FromNat(i - 1), SHIFT))]

\* the Range base..end stepped by MmuGranule::SIZE : cur, cur + SIZE, ... below end,
\* ceil((end - cur) / SIZE) addresses
StepBy(cur, end) ==
    IF ~LtW(cur, end) THEN <<>>
    ELSE [i \in 1..(ToNat(ShrW(SubW(SubW(end, cur), FromNat(1)), SHIFT)) + 1) |->
             AddW(cur, ShlW(FromNat(i - 1), SHIFT))]

\* pages with the last page of the range left out
pages_short(r) ==
    IF r.size = Zero THEN <<>> ELSE StepBy(r.addr, SubW(AddW(r.addr, r.size), SIZE))

\* AddressRange::pages ; base + size wraps in a build without overflow checks
pages(r) == StepBy(r.addr, AddW(r.addr, r.size))

\* whether base + size overflows, which panics in a build with overflow checks
pages_overflows(r) == AddCarry(r.addr, r.size).carry

-----------------------------------------------------------------------------
(* bigbang/src/main.rs : the bump page allocator *)

OK == "Ok"
ErrPageStackOverflow == "Err: Page stack overflow"
ErrFreeUnsupported == "Err: Page stack free not supported"
ErrBlock == "Err: Address already mapped in a block"
ErrPage == "Err: Address already mapped in a page"
ErrLevel0 == "Err: Block descriptor cannot be in level0"
PanicOverflow == "panic: arithmetic overflow"
PanicNotInit == "panic: assertion failed: METADATA.start != 0"
PanicPageAlign == "panic: Page not aligned"
PanicRoot == "panic: get level0 table space"
PanicSizes == "panic: assertion failed: prange.size() == vrange.size()"
PanicPAlign == "panic: prange not aligned"
PanicVAlign == "panic: vrange not aligned"
PanicMask == "panic: mask is not shifted"
PanicIndex == "panic: index out of bounds"
PanicNextLvl == "panic: called Option::unwrap() on a None value"
PanicDrop == "panic: Failed to drop pages"
FaultTable == "fault: table outside initialised memory"

IsPanic(res) == res \in {PanicOverflow, PanicNotInit, PanicPageAlign, PanicRoot, PanicSizes,
                         PanicPAlign, PanicVAlign, PanicMask, PanicIndex, PanicNextLvl,
                         PanicDrop, FaultTable}
IsErr(res) == res \in {ErrPageStackOverflow, ErrFreeUnsupported, ErrBlock, ErrPage, ErrLevel0}

\* StackPageAllocatorMetadata::new
MetadataNew == [start |-> Zero, end |-> Zero, top |-> Zero]

\* StackPageAllocatorMetadata::init ; num * SIZE is num << SHIFT
MetadataInit(start, num) ==
    [start |-> start, top |-> start, end |-> AddW(start, ShlW(num, SHIFT))]

\* Page::from_raw
Page(base, num) == [base |-> base, num |-> num]

\* Page::size / Page::range
PageSize(page) == ShlW(page.num, SHIFT)
PageRange(page) == AddressRange(page.base, PageSize(page))

\* The machine state a call works on.
MachineState(meta, t0, t1, m, g, oc) ==
    [meta |-> meta, ttbr0 |-> t0, ttbr1 |-> t1, mem |-> m, granted |-> g, oc |-> oc]

\* alloc_pages that refuses a request ending exactly at end
alloc_pages_ge(st, num) ==
    LET size == ShlW(num, SHIFT)
        sum == AddCarry(st.meta.top, size)
        none == Page(Zero, Zero)
    IN  IF st.meta.start = Zero
          THEN [st |-> st, res |-> PanicNotInit, page |-> none]
        ELSE IF ~LtW(sum.sum, st.meta.end)
          THEN [st |-> st, res |-> ErrPageStackOverflow, page |-> none]
        ELSE [st |-> [st EXCEPT !.meta.top = sum.sum,
                                !.granted = Append(@, Page(st.meta.top, num))],
              res |-> OK,
              page |-> Page(st.meta.top, num)]

\* StackPageAllocator::alloc_pages : [st, res, page]
alloc_pages(st, num) ==
    LET size == ShlW(num, SHIFT)
        sum == AddCarry(st.meta.top, size)
        none == Page(Zero, Zero)
    IN  IF st.oc /\ ShlLoses(num, SHIFT)
          THEN [st |-> st, res |-> PanicOverflow, page |-> none]
        ELSE IF st.meta.start = Zero
          THEN [st |-> st, res |-> PanicNotInit, page |-> none]
        ELSE IF st.oc /\ sum.carry
          THEN [st |-> st, res |-> PanicOverflow, page |-> none]
        ELSE IF GtW(sum.sum, st.meta.end)
          THEN [st |-> st, res |-> ErrPageStackOverflow, page |-> none]
        ELSE IF trailing_zeros(st.meta.top) < SHIFT
          THEN [st |-> st, res |-> PanicPageAlign, page |-> none]
        ELSE [st |-> [st EXCEPT !.meta.top = sum.sum,
                                !.granted = Append(@, Page(st.meta.top, num))],
              res |-> OK,
              page |-> Page(st.meta.top, num)]

\* free_pages that takes back the pages on top of the stack
free_pages_pops(st, page) ==
    IF AddW(page.base, PageSize(page)) = st.meta.top
    THEN [st |-> [st EXCEPT !.meta.top = page.base], res |-> OK]
    ELSE [st |-> st, res |-> ErrFreeUnsupported]

\* StackPageAllocator::free_pages
free_pages(st, page) == [st |-> st, res |-> ErrFreeUnsupported]

\* Drop for Page that ignores the allocator's answer
drop_silent(st, page) == [st |-> free_pages(st, page).st, res |-> OK]

\* Drop for Page : ALLOC::free_pages(self).expect("Failed to drop pages")
drop(st, page) ==
    [st |-> free_pages(st, page).st,
     res |-> IF free_pages(st, page).res = OK THEN OK ELSE PanicDrop]

\* a Page handle as its owner holds it; `forgotten`: no destructor will run for it
Owned(page) == [page |-> page, forgotten |-> FALSE]

\* a wrapper that leaves the destructor of the handle in place
ManuallyDrop_kept(page) == Owned(page)

\* core::mem::ManuallyDrop::new(page)
ManuallyDrop_new(page) == [Owned(page) EXCEPT !.forgotten = TRUE]

\* Page::into_raw : core::mem::forget(self)
into_raw(page) == [Owned(page) EXCEPT !.forgotten = TRUE]

\* the scope that owns handle h ends (return, `?`, continue): Drop for Page runs unless
\* the ownership was forgotten; the outcome
scope_end(st, h) == IF h.forgotten THEN OK ELSE drop(st, h.page).res

-----------------------------------------------------------------------------
(* arch/aarch64/mmu.rs : the translation-table engine *)

\* the one element of a singleton set: { f(x) : x \in {e} } computes e once for all its
\* uses in f
The(S) == CHOOSE x \in S : TRUE

\* a granule of zero bytes: every descriptor reads 0
ZeroPage == [i \in {} |-> Zero]

\* a fill that leaves the last entry of the granule as it was found, not zero
fill_but_last(m, base) == [b \in DOMAIN m \cup {map_to_vaddr(base)} |->
                              IF b = map_to_vaddr(base)
                              THEN [i \in {ENTRY_PER_TABLE - 1} |-> FromNat(1)] ELSE m[b]]

\* page.as_bytes_mut::<MAPPER>().fill(0)
fill_zero(m, base) == [b \in DOMAIN m \cup {map_to_vaddr(base)} |->
                          IF b = map_to_vaddr(base) THEN ZeroPage ELSE m[b]]

\* section.entries[idx]
ReadEntry(m, section, idx) ==
    IF idx \in DOMAIN m[section] THEN m[section][idx] ELSE Zero

\* a store that also lands in the entry after idx
WriteEntry_pair(m, section, idx, value) ==
    [m EXCEPT ![section] = [i \in DOMAIN m[section] \cup {idx, (idx + 1) % ENTRY_PER_TABLE} |->
                               IF i \in {idx, (idx + 1) % ENTRY_PER_TABLE} THEN value
                               ELSE m[section][i]]]

\* section.entries[idx] = value
WriteEntry(m, section, idx, value) ==
    [m EXCEPT ![section] = [i \in DOMAIN m[section] \cup {idx} |->
                               IF i = idx THEN value ELSE m[section][i]]]

\* MmuLevel::next_lvl ; 4 stands for None
next_lvl(level) == IF level < 3 THEN level + 1 ELSE 4

\* from_entry that takes every level-3 entry for an empty slot
from_entry_level3_free(entry, level) ==
    IF ~MatchesAll(TD_VALID, 1, entry) \/ level = 3 THEN "Invalid"
    ELSE IF MatchesAll(TD_TYPE, 1, entry) THEN "Table"
    ELSE (IF level = 0 THEN "None" ELSE "Block")

\* from_entry that takes a block-typed entry at level 0 for a block
from_entry_level0_block(entry, level) ==
    IF ~MatchesAll(TD_VALID, 1, entry) THEN "Invalid"
    ELSE IF MatchesAll(TD_TYPE, 1, entry)
         THEN (IF level = 3 THEN "Page" ELSE "Table")
         ELSE "Block"

\* from_entry that takes a valid table-typed entry for a table at level 3 too
from_entry_level3_table(entry, level) ==
    IF ~MatchesAll(TD_VALID, 1, entry) THEN "Invalid"
    ELSE IF MatchesAll(TD_TYPE, 1, entry) THEN "Table"
    ELSE (IF level = 0 THEN "None" ELSE "Block")

\* EntryType::from_entry
from_entry(entry, level) ==
    IF ~MatchesAll(TD_VALID, 1, entry) THEN "Invalid"
    ELSE IF MatchesAll(TD_TYPE, 1, entry)
         THEN (IF level = 3 THEN "Page" ELSE "Table")
         ELSE (IF level = 0 THEN "None" ELSE "Block")

\* x / d for a divisor d below 2^12, by long division over 12-bit digits
DivSmall(x, d) ==
    LET c == Pow2(12)
        q1 == x[1] \div d
        r1 == x[1] % d
        n2 == (r1 * c) + (x[2] \div c)
        n3 == ((n2 % d) * c) + (x[2] % c)
        n4 == ((n3 % d) * c) + (x[3] \div c)
        n5 == ((n4 % d) * c) + (x[3] % c)
    IN  << q1, ((n2 \div d) * c) + (n3 \div d), ((n4 \div d) * c) + (n5 \div d) >>

\* usize::is_power_of_two
is_power_of_two(x) == x # Zero /\ x = ShlW(FromNat(1), trailing_zeros(x))

\* the assertion of entry_of_addr
mask_is_shifted(mask) == is_power_of_two(DivSmall(mask, ENTRY_PER_TABLE - 1))

\* TableSection::entry_of_addr : the index, or -1 when the assertion fails
entry_of_addr(vaddr, mask) ==
    IF ~mask_is_shifted(mask) THEN -1
    ELSE LET idx == ShrW(AndW(vaddr, mask), trailing_zeros(mask))
         IN  IF idx[1] = 0 /\ idx[2] = 0 THEN idx[3] ELSE ENTRY_PER_TABLE

\* TableDescriptor::from_next_lvl_table_addr
from_next_lvl_table_addr(next_lvl_table_addr) ==
    OrW(OrW(FieldVal(TD_VALID, FromNat(1)), FieldVal(TD_TYPE, FromNat(1))),
        FieldVal(TD_NEXT_LEVEL_TABLE_ADDR, ShrW(next_lvl_table_addr, SHIFT)))

\* a conversion that sets PXN whatever execute_never is
attributes_into_pxn_set(attribute_fields) ==
    LET memattr == IF attribute_fields.mem_attributes = "CacheableDRAM"
                   THEN OrW(FieldVal(PD_SH, FromNat(SH_InnerShareable)),
                            FieldVal(PD_AttrIndx, FromNat(MAIR_NORMAL)))
                   ELSE OrW(FieldVal(PD_SH, FromNat(SH_OuterShareable)),
                            FieldVal(PD_AttrIndx, FromNat(MAIR_DEVICE)))
        ap == IF attribute_fields.acc_perms = "ReadOnly"
              THEN FieldVal(PD_AP, FromNat(AP_RO_EL1))
              ELSE FieldVal(PD_AP, FromNat(AP_RW_EL1))
    IN  OrW(OrW(OrW(memattr, ap), FieldVal(PD_PXN, FromNat(1))), FieldVal(PD_UXN, FromNat(1)))

\* From<AttributeFields> for FieldValue<u64, STAGE1_PAGE_DESCRIPTOR>
attributes_into(attribute_fields) ==
    LET memattr == IF attribute_fields.mem_attributes = "CacheableDRAM"
                   THEN OrW(FieldVal(PD_SH, FromNat(SH_InnerShareable)),
                            FieldVal(PD_AttrIndx, FromNat(MAIR_NORMAL)))
                   ELSE OrW(FieldVal(PD_SH, FromNat(SH_OuterShareable)),
                            FieldVal(PD_AttrIndx, FromNat(MAIR_DEVICE)))
        ap == IF attribute_fields.acc_perms = "ReadOnly"
              THEN FieldVal(PD_AP, FromNat(AP_RO_EL1))
              ELSE FieldVal(PD_AP, FromNat(AP_RW_EL1))
        pxn == IF attribute_fields.execute_never
               THEN FieldVal(PD_PXN, FromNat(1))
               ELSE FieldVal(PD_PXN, FromNat(0))
        uxn == FieldVal(PD_UXN, FromNat(1))
    IN  OrW(OrW(OrW(memattr, ap), pxn), uxn)

\* page_descriptor with the physical address put into OUTPUT_ADDR unshifted
page_descriptor_noshift(paddr, attributes) ==
    OrW(OrW(OrW(OrW(FieldVal(PD_VALID, FromNat(1)), FieldVal(PD_AF, FromNat(1))),
                attributes_into(attributes)),
            FieldVal(PD_TYPE, FromNat(1))),
        FieldVal(PD_OUTPUT_ADDR, paddr))

\* the level-3 descriptor map_page writes
page_descriptor(paddr, attributes) ==
    LET shifted == ShrW(paddr, SHIFT)
    IN  OrW(OrW(OrW(OrW(FieldVal(PD_VALID, FromNat(1)), FieldVal(PD_AF, FromNat(1))),
                    attributes_into(attributes)),
                FieldVal(PD_TYPE, FromNat(1))),
            FieldVal(PD_OUTPUT_ADDR, shifted))

\* the register a regime's handle works on
ttbr_of(st, reigon) == IF reigon = 0 THEN st.ttbr0 ELSE st.ttbr1

\* MmuReigon0/1::root_mut : the table at MAPPER(get_baddr()), None (Zero) for a null pointer
root_mut(st, reigon) == map_to_vaddr(get_baddr(ttbr_of(st, reigon)))

\* root_or_init of both handles programming TTBR0_EL1
root_or_init_ttbr0(st, reigon) ==
    IF root_mut(st, reigon) # Zero
    THEN [st |-> st, res |-> OK, section |-> root_mut(st, reigon)]
    ELSE LET a == alloc_pages(st, FromNat(1))
         IN  IF a.res = ErrPageStackOverflow
               THEN [st |-> st, res |-> PanicRoot, section |-> Zero]
             ELSE IF a.res # OK
               THEN [st |-> st, res |-> a.res, section |-> Zero]
             ELSE [st |-> [a.st EXCEPT !.mem = fill_zero(@, a.page.base),
                                       !.ttbr0 = set_baddr(a.page.base)],
                   res |-> OK,
                   section |-> map_to_vaddr(a.page.base)]

\* MmuReigon0/1::root_or_init : [st, res, section]
root_or_init(st, reigon) ==
    IF root_mut(st, reigon) # Zero
    THEN [st |-> st, res |-> OK, section |-> root_mut(st, reigon)]
    ELSE The({ IF a.res = ErrPageStackOverflow
                 THEN [st |-> st, res |-> PanicRoot, section |-> Zero]
               ELSE IF a.res # OK
                 THEN [st |-> st, res |-> a.res, section |-> Zero]
               ELSE LET filled == [a.st EXCEPT !.mem = fill_zero(@, a.page.base)]
                        reg == set_baddr(a.page.base)
                    IN  [st |-> IF reigon = 0 THEN [filled EXCEPT !.ttbr0 = reg]
                                                   ELSE [filled EXCEPT !.ttbr1 = reg],
                         res |-> scope_end(a.st, into_raw(a.page)),
                         section |-> map_to_vaddr(a.page.base)] :
               a \in {alloc_pages(st, FromNat(1))} })

\* mask = 0xFF80_0000_0000
InitMask == <<0, 16744448, 0>>

\* the while loop of map_page, from one iteration on: [st, res, iters]
RECURSIVE map_page_loop(_, _, _, _, _, _, _, _)
map_page_loop(st, section, level, mask, paddr, vaddr, attributes, iters) ==
    IF ~GtW(mask, SIZE) THEN [st |-> st, res |-> OK, iters |-> iters]
    ELSE
    LET it == Append(iters, <<level, mask>>)
        idx == entry_of_addr(vaddr, mask)
        stop(res) == [st |-> st, res |-> res, iters |-> it]
    IN  IF idx = -1 THEN stop(PanicMask)
        ELSE IF idx >= ENTRY_PER_TABLE THEN stop(PanicIndex)
        ELSE IF section \notin DOMAIN st.mem THEN stop(FaultTable)
        ELSE
        LET entry == ReadEntry(st.mem, section, idx)
            ty == from_entry(entry, level)
        IN  CASE ty = "Block" -> stop(ErrBlock)
              [] ty = "Page" -> stop(ErrPage)
              [] ty = "None" -> stop(ErrLevel0)
              [] ty = "Table" ->
                   LET next_table == ShlW(FieldRead(TD_NEXT_LEVEL_TABLE_ADDR, entry), SHIFT)
                   IN  IF next_lvl(level) = 4 THEN stop(PanicNextLvl)
                       ELSE map_page_loop(st, map_to_vaddr(next_table), next_lvl(level),
                                          ShrW(mask, SHIFT - 3), paddr, vaddr, attributes, it)
              [] ty = "Invalid" ->
                   IF level = 3
                   THEN map_page_loop(
                            [st EXCEPT !.mem = WriteEntry(@, section, idx,
                                                          page_descriptor(paddr, attributes))],
                            section, level, ShrW(mask, SHIFT - 3), paddr, vaddr, attributes, it)
                   ELSE The({ IF a.res # OK THEN stop(a.res)
                              ELSE IF scope_end(a.st, ManuallyDrop_new(a.page)) # OK
                                THEN [st |-> a.st, res |-> PanicDrop, iters |-> it]
                              ELSE map_page_loop(
                                       [a.st EXCEPT !.mem =
                                           WriteEntry(fill_zero(@, a.page.base), section, idx,
                                                      from_next_lvl_table_addr(a.page.base))],
                                       section, level, mask, paddr, vaddr, attributes, it) :
                              a \in {alloc_pages(st, FromNat(1))} })

\* map_page that takes a page from the allocator before it walks the tables
map_page_eager_alloc(st, reigon, paddr, vaddr, attributes) ==
    The({ IF r.res # OK THEN [st |-> r.st, res |-> r.res, iters |-> <<>>]
          ELSE map_page_loop(alloc_pages(r.st, FromNat(1)).st, r.section, 0, InitMask,
                             paddr, vaddr, attributes, <<>>) :
          r \in {root_or_init(st, reigon)} })

\* MmuReigon::map_page : [st, res, iters]
map_page(st, reigon, paddr, vaddr, attributes) ==
    LET r == root_or_init(st, reigon)
    IN  IF r.res # OK THEN [st |-> r.st, res |-> r.res, iters |-> <<>>]
        ELSE map_page_loop(r.st, r.section, 0, InitMask, paddr, vaddr, attributes, <<>>)

\* the for loop of map_range_with over pairs lo..hi of the zipped page sequences, in
\* order, stopping at the first map_page that fails (the pairs are halved to keep the
\* evaluation shallow)
RECURSIVE map_pairs_between(_, _, _, _, _, _, _)
map_pairs_between(st, reigon, ps, vs, attribute, lo, hi) ==
    IF lo > hi THEN [st |-> st, res |-> OK, done |-> lo - 1]
    ELSE IF lo = hi
      THEN LET r == map_page(st, reigon, ps[lo], vs[lo], attribute)
           IN  [st |-> r.st, res |-> r.res, done |-> IF r.res = OK THEN lo ELSE lo - 1]
    ELSE LET mid == (lo + hi) \div 2
             left == map_pairs_between(st, reigon, ps, vs, attribute, lo, mid)
         IN  IF left.res # OK THEN left
             ELSE map_pairs_between(left.st, reigon, ps, vs, attribute, mid + 1, hi)

\* the for loop of map_range_with over the zipped page sequences, from pair i on
map_pairs(st, reigon, ps, vs, attribute, i) ==
    map_pairs_between(st, reigon, ps, vs, attribute, i,
                      IF Len(ps) < Len(vs) THEN Len(ps) ELSE Len(vs))

\* map_range_with without the assertion on the two sizes: zip stops at the shorter range
map_range_with_unchecked(st, reigon, prange, vrange, attribute) ==
    IF ~is_aligned(prange.addr, SIZE) THEN [st |-> st, res |-> PanicPAlign, done |-> 0]
    ELSE IF ~is_aligned(vrange.addr, SIZE) THEN [st |-> st, res |-> PanicVAlign, done |-> 0]
    ELSE map_pairs(st, reigon, pages(prange), pages(vrange), attribute, 1)

\* map_range_with that fetches the regime's root before the loop
map_range_with_root_first(st, reigon, prange, vrange, attribute) ==
    IF prange.size # vrange.size THEN [st |-> st, res |-> PanicSizes, done |-> 0]
    ELSE IF ~is_aligned(prange.addr, SIZE) THEN [st |-> st, res |-> PanicPAlign, done |-> 0]
    ELSE IF ~is_aligned(vrange.addr, SIZE) THEN [st |-> st, res |-> PanicVAlign, done |-> 0]
    ELSE LET r == root_or_init(st, reigon)
         IN  IF r.res # OK THEN [st |-> r.st, res |-> r.res, done |-> 0]
             ELSE map_pairs(r.st, reigon, pages(prange), pages(vrange), attribute, 1)

\* map_range_with that takes back what it did when one of its map_page calls fails
map_range_with_atomic(st, reigon, prange, vrange, attribute) ==
    IF prange.size # vrange.size THEN [st |-> st, res |-> PanicSizes, done |-> 0]
    ELSE IF ~is_aligned(prange.addr, SIZE) THEN [st |-> st, res |-> PanicPAlign, done |-> 0]
    ELSE IF ~is_aligned(vrange.addr, SIZE) THEN [st |-> st, res |-> PanicVAlign, done |-> 0]
    ELSE IF st.oc /\ (pages_overflows(prange) \/ pages_overflows(vrange))
      THEN [st |-> st, res |-> PanicOverflow, done |-> 0]
    ELSE The({ IF IsErr(r.res) THEN [r EXCEPT !.st = st] ELSE r :
               r \in {map_pairs(st, reigon, pages(prange), pages(vrange), attribute, 1)} })

\* map_range_with that rounds the two bases down to the granule instead of asserting
map_range_with_rounding(st, reigon, prange, vrange, attribute) ==
    IF prange.size # vrange.size THEN [st |-> st, res |-> PanicSizes, done |-> 0]
    ELSE map_pairs(st, reigon,
                   pages(AddressRange(SubW(prange.addr, AndW(prange.addr, Ones(SHIFT))),
                                      prange.size)),
                   pages(AddressRange(SubW(vrange.addr, AndW(vrange.addr, Ones(SHIFT))),
                                      vrange.size)),
                   attribute, 1)

\* MmuReigon::map_range_with : [st, res, done]
map_range_with(st, reigon, prange, vrange, attribute) ==
    IF prange.size # vrange.size THEN [st |-> st, res |-> PanicSizes, done |-> 0]
    ELSE IF ~is_aligned(prange.addr, SIZE) THEN [st |-> st, res |-> PanicPAlign, done |-> 0]
    ELSE IF ~is_aligned(vrange.addr, SIZE) THEN [st |-> st, res |-> PanicVAlign, done |-> 0]
    ELSE IF st.oc /\ (pages_overflows(prange) \/ pages_overflows(vrange))
      THEN [st |-> st, res |-> PanicOverflow, done |-> 0]
    ELSE map_pairs(st, reigon, pages(prange), pages(vrange), attribute, 1)

\* MmuReigon::map_range
map_range(st, reigon, range, attribute) ==
    map_range_with(st, reigon, range, map_to_vrange(range), attribute)

-----------------------------------------------------------------------------
(* The calls a client of the allocator and of the engine makes *)

\* capacity, in pages, of the larger of the two allocator budgets
MaxCap == 8
\* most client alloc_pages calls in a run of the allocator alone
MaxAllocCalls == 4

\* 0x1000_0000, 0x1000_1000, 0x4000_0000, 0xFFFF_1000_0000_0000
Addr1 == <<0, 16, 0>>
Addr2 == <<0, 16, 4096>>
Addr3 == <<0, 64, 0>>
AddrStack == <<65535, 1048576, 0>>
\* 0x1000_0800, not granule-aligned
AddrOdd == <<0, 16, 2048>>
\* 0xFFFF_1000_0000_0800, not granule-aligned
AddrStackOdd == <<65535, 1048576, 2048>>

\* 2^52 - 1 pages: the byte size is 2^64 - 4096
HugeNum == <<15, 16777215, 16777215>>

\* 2^52 pages: the byte size is 2^64
WrapNum == <<16, 0, 0>>

AllocatorStarts == {Addr1}
AllocatorCaps == {FromNat(4), FromNat(MaxCap)}

AttrRWX == [mem_attributes |-> "CacheableDRAM", acc_perms |-> "ReadWrite", execute_never |-> FALSE]
AttrDev == [mem_attributes |-> "Device", acc_perms |-> "ReadWrite", execute_never |-> TRUE]
AttrStack == [mem_attributes |-> "CacheableDRAM", acc_perms |-> "ReadWrite", execute_never |-> TRUE]
AttrRO == [mem_attributes |-> "CacheableDRAM", acc_perms |-> "ReadOnly", execute_never |-> TRUE]

Bytes(n) == ShlW(FromNat(n), SHIFT)

\* the i-th granule from base
PageAt(base, i) == AddW(base, Bytes(i))

\* <<reigon, paddr, vaddr, attributes>> of the map_page calls
MapPageInputs ==
    { <<0, Addr1, Addr1, AttrRWX>>, <<0, Addr3, Addr1, AttrDev>>, <<0, Addr3, Addr2, AttrRO>>,
      <<1, Addr1, AddrStack, AttrRO>>, <<1, Addr3, AddrStack, AttrRWX>> }

\* <<reigon, prange, vrange, attribute>> of the map_range_with calls
MapRangeWithInputs ==
    { <<0, AddressRange(Addr3, Zero), AddressRange(Addr1, Zero), AttrRWX>>,
      <<1, AddressRange(Addr1, Zero), AddressRange(AddrStack, Zero), AttrRO>>,
      <<0, AddressRange(Addr3, Bytes(2)), AddressRange(Addr1, Bytes(2)), AttrRO>>,
      <<0, AddressRange(Addr3, Bytes(2)), AddressRange(Addr1, Bytes(3)), AttrRWX>>,
      <<0, AddressRange(Addr3, Zero), AddressRange(Addr1, Bytes(1)), AttrRWX>>,
      <<0, AddressRange(AddrOdd, Bytes(1)), AddressRange(Addr1, Bytes(1)), AttrRWX>>,
      <<0, AddressRange(Addr3, Bytes(1)), AddressRange(AddrOdd, Bytes(1)), AttrRWX>>,
      <<1, AddressRange(Addr1, Bytes(2)), AddressRange(AddrStackOdd, Bytes(2)), AttrRO>>,
      <<0, AddressRange(AddrOdd, Bytes(1)), AddressRange(AddrOdd, Bytes(1)), AttrRO>> }
    \cup { <<1, PageRange(held[i]), AddressRange(AddrStack, PageSize(held[i])), AttrRWX>> :
              i \in 1..Len(held) }

\* <<reigon, range, attribute>> of the map_range calls
MapRangeInputs ==
    { <<1, AddressRange(Addr1, Zero), AttrRO>>, <<0, AddressRange(AddrOdd, Bytes(1)), AttrRWX>> }
    \cup { <<0, PageRange(held[i]), AttrRWX>> : i \in 1..Len(held) }

NoCall == [op |-> "none", reigon |-> 0, paddr |-> Zero, vaddr |-> Zero, psize |-> Zero,
           vsize |-> Zero, attr |-> AttrRWX, num |-> Zero, res |-> OK,
           page |-> Page(Zero, Zero), done |-> 0, iters |-> <<>>,
           entry |-> Zero, level |-> 0, ty |-> "none"]

Halted == IsPanic(last.res)

\* outside the loader's main: a client of the allocator and of the engine on its own
NoBoot == [pc |-> "none"]

State == MachineState(METADATA, TTBR0_EL1, TTBR1_EL1, mem, granted, overflow_checks)

Commit(st) ==
    /\ METADATA' = st.meta
    /\ TTBR0_EL1' = st.ttbr0
    /\ TTBR1_EL1' = st.ttbr1
    /\ mem' = st.mem
    /\ granted' = st.granted
    /\ UNCHANGED overflow_checks

Init ==
    /\ METADATA = MetadataNew
    /\ TTBR0_EL1 = Zero
    /\ TTBR1_EL1 = Zero
    /\ mem = [b \in {} |-> ZeroPage]
    /\ overflow_checks \in BOOLEAN
    /\ granted = <<>>
    /\ held = <<>>
    /\ last = NoCall
    /\ boot = NoBoot
    /\ steps = 0

\* METADATA.init(start, num), once, as in main
CallInit ==
    /\ boot.pc = "none"
    /\ last.op = "none"
    /\ \E start \in AllocatorStarts, num \in AllocatorCaps :
          /\ METADATA' = MetadataInit(start, num)
          /\ last' = [NoCall EXCEPT !.op = "init", !.paddr = start, !.num = num]
    /\ UNCHANGED <<TTBR0_EL1, TTBR1_EL1, mem, overflow_checks, granted, held, boot, steps>>

\* StackPageAllocator::alloc_pages(num) called by the client
AllocCall(num) ==
    \E r \in {alloc_pages(State, num)} :
        /\ Commit(r.st)
        /\ held' = IF r.res = OK THEN Append(held, r.page) ELSE held
        /\ last' = [NoCall EXCEPT !.op = "alloc_pages", !.num = num, !.res = r.res,
                                  !.page = r.page]
        /\ UNCHANGED <<boot, steps>>

CallAllocPages ==
    /\ ~Halted
    /\ \E num \in {FromNat(2), FromNat(3)} : AllocCall(num)

\* reigon.map_page(paddr, vaddr, attributes)
CallMapPage ==
    /\ ~Halted
    /\ \E in \in MapPageInputs :
          \E r \in {map_page(State, in[1], in[2], in[3], in[4])} :
              /\ Commit(r.st)
              /\ last' = [NoCall EXCEPT !.op = "map_page", !.reigon = in[1], !.paddr = in[2],
                                        !.vaddr = in[3], !.attr = in[4], !.res = r.res,
                                        !.iters = r.iters]
    /\ UNCHANGED <<held, boot, steps>>

\* reigon.map_range_with(prange, vrange, attribute)
CallMapRangeWith ==
    /\ ~Halted
    /\ \E in \in MapRangeWithInputs :
          \E r \in {map_range_with(State, in[1], in[2], in[3], in[4])} :
              /\ Commit(r.st)
              /\ last' = [NoCall EXCEPT !.op = "map_range_with", !.reigon = in[1],
                                        !.paddr = in[2].addr, !.psize = in[2].size,
                                        !.vaddr = in[3].addr, !.vsize = in[3].size,
                                        !.attr = in[4], !.res = r.res, !.done = r.done]
    /\ UNCHANGED <<held, boot, steps>>

\* reigon.map_range(range, attribute)
CallMapRange ==
    /\ ~Halted
    /\ \E in \in MapRangeInputs :
          \E r \in {map_range(State, in[1], in[2], in[3])} :
              /\ Commit(r.st)
              /\ last' = [NoCall EXCEPT !.op = "map_range", !.reigon = in[1],
                                        !.paddr = in[2].addr, !.psize = in[2].size,
                                        !.vaddr = map_to_vaddr(in[2].addr),
                                        !.vsize = in[2].size,
                                        !.attr = in[3], !.res = r.res, !.done = r.done]
    /\ UNCHANGED <<held, boot, steps>>

Next ==
    \/ CallInit
    \/ CallAllocPages
    \/ CallMapPage
    \/ CallMapRangeWith
    \/ CallMapRange

Spec == Init /\ [][Next]_vars

\* The allocator alone, with every page count a caller can pass
AllocNums == {FromNat(0), FromNat(1), FromNat(2), FromNat(3), HugeNum, WrapNum}

CallAllocPagesAny ==
    /\ boot.pc = "none"
    /\ ~Halted
    /\ Len(held) < MaxAllocCalls
    /\ \E num \in AllocNums : AllocCall(num)

NextAlloc ==
    \/ CallInit
    \/ CallAllocPagesAny

SpecAlloc == Init /\ [][NextAlloc]_vars

\* --- AddressRange::pages alone, over ranges drawn from bounded sets ---

MaxRangePages == 6

\* 2^64 - 4 granules
AddrTop == <<65535, 16777215, 16760832>>

RangeBases == {Zero, Addr1, AddrOdd, Addr3, AddrStack, AddrTop}

\* AddressRange::new(addr, size)
InitPages ==
    /\ METADATA = MetadataNew
    /\ TTBR0_EL1 = Zero
    /\ TTBR1_EL1 = Zero
    /\ mem = [b \in {} |-> ZeroPage]
    /\ overflow_checks \in BOOLEAN
    /\ granted = <<>>
    /\ held = <<>>
    /\ boot = NoBoot
    /\ steps = 0
    /\ \E base \in RangeBases, k \in 0..MaxRangePages :
          last = [NoCall EXCEPT !.op = "range", !.paddr = base, !.psize = Bytes(k)]

\* range.pages(), collected
PagesCall(op) ==
    /\ \E r \in {AddressRange(last.paddr, last.psize)} :
          IF overflow_checks /\ pages_overflows(r)
          THEN last' = [last EXCEPT !.op = op, !.res = PanicOverflow, !.iters = <<>>]
          ELSE last' = [last EXCEPT !.op = op, !.res = OK, !.iters = pages(r)]
    /\ UNCHANGED <<METADATA, TTBR0_EL1, TTBR1_EL1, mem, overflow_checks, granted, held, boot, steps>>

CallPages ==
    /\ last.op = "range"
    /\ PagesCall("pages")

\* pages() called once more on the same range
CallPagesAgain ==
    /\ last.op = "pages"
    /\ ~Halted
    /\ PagesCall("pages_again")

NextPages ==
    \/ CallPages
    \/ CallPagesAgain

SpecPages == InitPages /\ [][NextPages]_vars

\* --- from_entry and map_page over tables that already hold a descriptor ---

\* low bits 00, 01, 10, 11, bare and with the address 0x4000_0000 and AF (0x400)
EntryValues ==
    { Zero, FromNat(1), FromNat(2), FromNat(3),
      OrW(Addr3, FromNat(1024)), OrW(Addr3, FromNat(1025)),
      OrW(Addr3, FromNat(1026)), OrW(Addr3, FromNat(1027)) }

EntryLevels == 0..3

\* the four tables of the path of 0x1000_0000 in the low regime, as map_page builds them
EntryTables(oc) ==
    map_page(MachineState(MetadataInit(Addr1, FromNat(MaxCap)), Zero, Zero,
                          [b \in {} |-> ZeroPage], <<>>, oc),
             0, Addr3, Addr1, AttrRWX).st

\* the tables with descriptor d in the slot of 0x1000_0000 at one level
InitEntry ==
    /\ overflow_checks \in BOOLEAN
    /\ held = <<>>
    /\ boot = NoBoot
    /\ steps = 0
    /\ \E d \in EntryValues, level \in EntryLevels :
          \E st \in {EntryTables(overflow_checks)} :
              /\ METADATA = st.meta
              /\ TTBR0_EL1 = st.ttbr0
              /\ TTBR1_EL1 = st.ttbr1
              /\ granted = st.granted
              /\ mem = WriteEntry(st.mem, PageAt(Addr1, level),
                                entry_of_addr(Addr1, ShrW(InitMask, (SHIFT - 3) * level)), d)
              /\ last = [NoCall EXCEPT !.op = "entry", !.entry = d, !.level = level]

\* EntryType::from_entry(entry, level)
CallFromEntry ==
    /\ last.op = "entry"
    /\ last' = [last EXCEPT !.op = "from_entry", !.ty = from_entry(last.entry, last.level)]
    /\ UNCHANGED <<METADATA, TTBR0_EL1, TTBR1_EL1, mem, overflow_checks, granted, held, boot, steps>>

\* ttbl0.map_page(0x4000_0000, vaddr, rw) over these tables
CallMapPageEntry ==
    /\ last.op \in {"entry", "from_entry"}
    /\ \E vaddr \in {Addr1, Addr2} :
          \E r \in {map_page(State, 0, Addr3, vaddr, AttrRWX)} :
              /\ Commit(r.st)
              /\ last' = [last EXCEPT !.op = "map_page", !.reigon = 0, !.paddr = Addr3,
                                      !.vaddr = vaddr, !.attr = AttrRWX, !.res = r.res,
                                      !.iters = r.iters]
    /\ UNCHANGED <<held, boot, steps>>

NextEntry ==
    \/ CallFromEntry
    \/ CallMapPageEntry

SpecEntry == InitEntry /\ [][NextEntry]_vars

-----------------------------------------------------------------------------
(* The translation a table walk gives, as the hardware reads the tables *)

\* the 9-bit index field of a virtual address at a level
VIdx(v, level) == ToNat(AndW(ShrW(v, SHIFT + (SHIFT - 3) * (3 - level)), Ones(SHIFT - 3)))

IsValidTable(d) == FieldRead(TD_VALID, d) = FromNat(1) /\ FieldRead(TD_TYPE, d) = FromNat(1)

NotMapped == [found |-> FALSE, desc |-> Zero, tables |-> 0]

RECURSIVE WalkFrom(_, _, _, _)
WalkFrom(m, table, v, level) ==
    IF table \notin DOMAIN m THEN [NotMapped EXCEPT !.tables = level]
    ELSE LET d == ReadEntry(m, table, VIdx(v, level))
         IN  IF level = 3 THEN [found |-> IsValidTable(d), desc |-> d, tables |-> 4]
             ELSE IF IsValidTable(d)
                  THEN WalkFrom(m, ShlW(FieldRead(TD_NEXT_LEVEL_TABLE_ADDR, d), SHIFT), v, level + 1)
                  ELSE [NotMapped EXCEPT !.tables = level + 1]

\* found: a valid level-3 page descriptor was reached; tables: tables on the path that exist
Walk(m, ttbr, v) ==
    IF get_baddr(ttbr) = Zero THEN NotMapped ELSE WalkFrom(m, get_baddr(ttbr), v, 0)

TtbrOf(t0, t1, reigon) == IF reigon = 0 THEN t0 ELSE t1
Ttbr(reigon) == TtbrOf(TTBR0_EL1, TTBR1_EL1, reigon)

\* the physical address a page descriptor gives
OutputAddr(d) == ShlW(FieldRead(PD_OUTPUT_ADDR, d), SHIFT)

\* the attribute bits a page descriptor must carry for attrs
AttrBitsAre(d, attrs) ==
    /\ FieldRead(PD_AttrIndx, d) = FromNat(IF attrs.mem_attributes = "CacheableDRAM" THEN 1 ELSE 0)
    /\ FieldRead(PD_SH, d) = FromNat(IF attrs.mem_attributes = "CacheableDRAM" THEN 3 ELSE 2)
    /\ FieldRead(PD_AP, d) = FromNat(IF attrs.acc_perms = "ReadOnly" THEN 2 ELSE 0)
    /\ FieldRead(PD_PXN, d) = FromNat(IF attrs.execute_never THEN 1 ELSE 0)

Below48(a) == a[1] = 0

\* v resolves to p in the regime's tables
Resolves(m, ttbr, v, p) ==
    LET w == Walk(m, ttbr, v) IN w.found /\ OutputAddr(w.desc) = p

\* C1: after map_page(p, v, attrs) returns Ok for granule-aligned p < 2^48 and v, the
\* walk of v from the regime's root reaches a valid level-3 page descriptor whose
\* output address is p, whose AttrIndx/SH/AP/PXN bits encode attrs, with VALID and AF set.
C1_RoundTrip ==
    (/\ last.op = "map_page"
     /\ last.res = OK
     /\ is_aligned(last.paddr, SIZE) /\ is_aligned(last.vaddr, SIZE)
     /\ Below48(last.paddr))
    => LET w == Walk(mem, Ttbr(last.reigon), last.vaddr)
       IN  /\ w.found
           /\ OutputAddr(w.desc) = last.paddr
           /\ AttrBitsAre(w.desc, last.attr)
           /\ FieldRead(PD_VALID, w.desc) = FromNat(1)
           /\ FieldRead(PD_AF, w.desc) = FromNat(1)

C1_Witness ==
    /\ last.op = "map_page"
    /\ last.res = OK
    /\ last.reigon = 1
    /\ last.attr = AttrRWX
    /\ Resolves(mem, TTBR1_EL1, AddrStack, Addr3)


\* C2: map_range_with(prange, vrange, attrs) returning Ok has mapped, for every i below
\* the page count, vrange.base + i*granule to prange.base + i*granule; map_range(prange)
\* returning Ok has mapped MAPPER(prange.base) + i*granule to prange.base + i*granule.
C2_RangeMapped ==
    /\ (last.op = "map_range_with" /\ last.res = OK)
         => \A i \in 0..(ToNat(ShrW(last.psize, SHIFT)) - 1) :
               Resolves(mem, Ttbr(last.reigon), PageAt(last.vaddr, i), PageAt(last.paddr, i))
    /\ (last.op = "map_range" /\ last.res = OK)
         => \A i \in 0..(ToNat(ShrW(last.psize, SHIFT)) - 1) :
               Resolves(mem, Ttbr(last.reigon), PageAt(map_to_vaddr(last.paddr), i),
                        PageAt(last.paddr, i))

C2_Witness ==
    /\ last.op = "map_range"
    /\ last.res = OK
    /\ last.psize = Bytes(3)
    /\ Resolves(mem, TTBR0_EL1, PageAt(last.paddr, 2), PageAt(last.paddr, 2))

\* C3: map_page on a virtual page that a leaf descriptor already maps returns an
\* "already mapped" error and leaves that descriptor bit for bit as it was.
C3_NoOverwrite ==
    [][(/\ last'.op = "map_page"
        /\ Walk(mem, Ttbr(last'.reigon), last'.vaddr).found)
       => /\ last'.res \in {ErrPage, ErrBlock}
          /\ Walk(mem', TtbrOf(TTBR0_EL1', TTBR1_EL1', last'.reigon), last'.vaddr) = Walk(mem, Ttbr(last'.reigon), last'.vaddr)]_vars

C3_Witness ==
    /\ last.op = "map_page"
    /\ last.res = ErrPage
    /\ last.paddr = Addr3
    /\ Resolves(mem, Ttbr(last.reigon), last.vaddr, Addr1)

-----------------------------------------------------------------------------
(* The allocator's contract *)

RECURSIVE SumNums(_, _)
SumNums(g, i) == IF i > Len(g) THEN Zero ELSE AddW(g[i].num, SumNums(g, i + 1))

\* pages handed out so far, and the capacity the allocator was initialised with
GrantedPages == SumNums(granted, 1)
CapPages == ShrW(SubW(METADATA.end, METADATA.start), SHIFT)
FreePages == ShrW(SubW(METADATA.end, METADATA.top), SHIFT)

\* C4: on an initialised allocator alloc_pages(n) succeeds if and only if the pages
\* granted so far plus n do not exceed the capacity, and otherwise fails with
\* "Page stack overflow".
C4_SucceedsIffFits ==
    [][(last'.op = "alloc_pages" /\ METADATA.start # Zero)
       => /\ (last'.res = OK) <=> LeW(AddW(GrantedPages, last'.num), CapPages)
          /\ last'.res # OK => last'.res = ErrPageStackOverflow]_vars

\* C5: a successful alloc_pages(n) returns a handle at the old top and moves top up by
\* exactly n * granule_size (above the old top when n >= 1); a failed one leaves start,
\* end and top as they were.
C5_TopAdvances ==
    [][(last'.op = "alloc_pages" /\ METADATA.start # Zero)
       => IF last'.res = OK
          THEN /\ last'.page.base = METADATA.top
               /\ ~ShlLoses(last'.num, SHIFT)
               /\ ~AddCarry(METADATA.top, ShlW(last'.num, SHIFT)).carry
               /\ METADATA'.top = AddW(METADATA.top, ShlW(last'.num, SHIFT))
               /\ last'.num # Zero => GtW(METADATA'.top, METADATA.top)
               /\ METADATA'.start = METADATA.start /\ METADATA'.end = METADATA.end
          ELSE METADATA' = METADATA]_vars

-----------------------------------------------------------------------------
(* The scenario of a 4-page allocator at 0x1000_0000 *)

\* 0x1000_3000
Addr1Plus3 == <<0, 16, 12288>>
ThreePages == Page(Addr1, FromNat(3))

FreshFourPages ==
    /\ METADATA = MetadataInit(Addr1, FromNat(4))
    /\ granted = <<>>

AfterThree ==
    /\ METADATA = [MetadataInit(Addr1, FromNat(4)) EXCEPT !.top = Addr1Plus3]
    /\ granted = <<ThreePages>>
    /\ held = <<ThreePages>>
    /\ TTBR0_EL1 = Zero

\* the first two steps of the scenario: alloc_pages(3) succeeds, alloc_pages(2) fails
ScenarioAllocs ==
    /\ (FreshFourPages /\ last'.op = "alloc_pages" /\ last'.num = FromNat(3))
         => (last'.res = OK /\ last'.page = ThreePages /\ METADATA'.top = Addr1Plus3)
    /\ (AfterThree /\ last'.op = "alloc_pages" /\ last'.num = FromNat(2))
         => (last'.res = ErrPageStackOverflow /\ METADATA' = METADATA)

\* the third step: after the failed alloc_pages(2), the 3 pages are identity-mapped
ScenarioMapStep ==
    /\ AfterThree
    /\ last.op = "alloc_pages" /\ last.num = FromNat(2) /\ last.res = ErrPageStackOverflow
    /\ last'.op = "map_range" /\ last'.reigon = 0
    /\ last'.paddr = Addr1 /\ last'.psize = Bytes(3) /\ last'.attr = AttrRWX

\* C6 as stated: the identity mapping of the 3 pages succeeds and each address resolves
\* to itself, read-write and executable.
C6_ScenarioMapsAll ==
    [][/\ ScenarioAllocs
       /\ ScenarioMapStep
            => /\ last'.res = OK
               /\ \A i \in 0..2 :
                     LET w == Walk(mem', TTBR0_EL1', PageAt(Addr1, i))
                     IN  /\ w.found
                         /\ OutputAddr(w.desc) = PageAt(Addr1, i)
                         /\ FieldRead(PD_AP, w.desc) = FromNat(AP_RW_EL1)
                         /\ FieldRead(PD_PXN, w.desc) = FromNat(0)]_vars

\* C6 amended: alloc_pages(3) succeeds with top = 0x1000_3000, alloc_pages(2) fails, and
\* the identity mapping then fails with "Page stack overflow": the level-0 root takes the
\* one page left (top = end) and the level-1 table cannot be allocated, so none of the 3
\* addresses resolves.
C6_ScenarioOutOfPages ==
    [][/\ ScenarioAllocs
       /\ ScenarioMapStep
            => /\ last'.res = ErrPageStackOverflow
               /\ last'.done = 0
               /\ METADATA'.top = METADATA.end
               /\ get_baddr(TTBR0_EL1') = Addr1Plus3
               /\ \A i \in 0..2 : ~Walk(mem', TTBR0_EL1', PageAt(Addr1, i)).found]_vars

C6_Witness ==
    /\ last.op = "map_range" /\ last.reigon = 0 /\ last.paddr = Addr1 /\ last.psize = Bytes(3)
    /\ last.res = ErrPageStackOverflow
    /\ METADATA = [MetadataInit(Addr1, FromNat(4)) EXCEPT !.top = METADATA.end]
    /\ granted = <<ThreePages, Page(Addr1Plus3, FromNat(1))>>

-----------------------------------------------------------------------------
(* Failures of the engine *)

\* tables missing on the path of v, the root included
MissingTables(reigon, v) == 4 - Walk(mem, Ttbr(reigon), v).tables

\* C7: when the allocator cannot supply the table pages a map_page call needs (the
\* root or an intermediate table), the call returns the allocator's error to its
\* caller; it does not panic.
C7_AllocFailureIsErr ==
    [][(/\ last'.op = "map_page"
        /\ METADATA.start # Zero
        /\ LeW(METADATA.top, METADATA.end)
        /\ MissingTables(last'.reigon, last'.vaddr) > ToNat(FreePages))
       => last'.res = ErrPageStackOverflow]_vars

EngineUnchanged == UNCHANGED <<METADATA, TTBR0_EL1, TTBR1_EL1, mem, granted>>

C9_EmptyRangeNoOp ==
    [][(/\ last'.op \in {"map_range", "map_range_with"}
        /\ last'.psize = Zero /\ last'.vsize = Zero
        /\ is_aligned(last'.paddr, SIZE) /\ is_aligned(last'.vaddr, SIZE))
       => (last'.res = OK /\ last'.done = 0 /\ EngineUnchanged)]_vars

C9_Witness ==
    /\ last.op = "map_range"
    /\ last.psize = Zero
    /\ last.res = OK
    /\ METADATA.start # Zero
    /\ TTBR1_EL1 = Zero /\ last.reigon = 1

-----------------------------------------------------------------------------
(* Page sequences *)

-----------------------------------------------------------------------------
(* Classification of descriptors *)

BlockTyped(d) == FieldRead(TD_VALID, d) = FromNat(1) /\ FieldRead(TD_TYPE, d) = FromNat(0)

\* C11: a valid level-0 descriptor typed block is classified None by from_entry, and a
\* map_page that reaches it returns the error "Block descriptor cannot be in level0"
\* with no descriptor written, no page allocated and no base register changed.
C11_Level0BlockRejected ==
    [][/\ (last'.op = "from_entry" /\ last'.level = 0 /\ BlockTyped(last'.entry))
            => last'.ty = "None"
       /\ (/\ last'.op = "map_page"
           /\ BlockTyped(ReadEntry(mem, get_baddr(TTBR0_EL1), VIdx(last'.vaddr, 0))))
            => (last'.res = ErrLevel0 /\ EngineUnchanged)]_vars

C11_Witness ==
    /\ last.op = "map_page"
    /\ last.level = 0 /\ last.entry = OrW(Addr3, FromNat(1025))
    /\ last.ty = "None"
    /\ last.res = ErrLevel0

\* C12: from_entry classifies an entry as Block only at levels 1 and 2, as Page only at
\* level 3, as Table only at levels 0 to 2, and as Invalid exactly when VALID is clear.
C12_ClassesByLevel ==
    last.op = "from_entry"
    => /\ last.ty = "Block" => last.level \in {1, 2}
       /\ last.ty = "Page" => last.level = 3
       /\ last.ty = "Table" => last.level \in {0, 1, 2}
       /\ last.ty = "Invalid" <=> FieldRead(TD_VALID, last.entry) = FromNat(0)

-----------------------------------------------------------------------------
(* The two regimes *)

MapOps == {"map_page", "map_range", "map_range_with"}

\* the tables reachable from a table at a level
RECURSIVE TablesFrom(_, _, _)
TablesFrom(m, table, level) ==
    IF table \notin DOMAIN m THEN {}
    ELSE {table} \cup
         (IF level = 3 THEN {}
          ELSE UNION { TablesFrom(m, ShlW(FieldRead(TD_NEXT_LEVEL_TABLE_ADDR, m[table][i]), SHIFT),
                                  level + 1) :
                          i \in {j \in DOMAIN m[table] : IsValidTable(m[table][j])} })

TablesOf(m, ttbr) == IF get_baddr(ttbr) = Zero THEN {} ELSE TablesFrom(m, get_baddr(ttbr), 0)

\* C14: for each regime the level-0 table is allocated and zero-filled once, by the
\* first map operation through that regime; its base register, once written, never
\* changes; and a map operation through one regime leaves the other regime's base
\* register and every table reachable from the other regime's root as they were.
C14_RegimesIndependent ==
    [][/\ \A r \in {0, 1} :
             LET old == TtbrOf(TTBR0_EL1, TTBR1_EL1, r)
                 new == TtbrOf(TTBR0_EL1', TTBR1_EL1', r)
             IN  /\ old # Zero => new = old
                 /\ (old = Zero /\ new # Zero)
                      => /\ last'.op \in MapOps /\ last'.reigon = r
                         /\ get_baddr(new) = METADATA.top
                         /\ METADATA.top \notin DOMAIN mem
                         /\ Len(granted') > Len(granted)
                         /\ granted'[Len(granted) + 1] = Page(METADATA.top, FromNat(1))
                         /\ \A i \in DOMAIN mem'[get_baddr(new)] :
                               LET d == mem'[get_baddr(new)][i]
                               IN  d = Zero \/ (IsValidTable(d) /\ GtW(d, METADATA.top))
                 /\ (last'.op = "map_page" /\ last'.reigon = r /\ old = Zero
                       /\ ~IsPanic(last'.res))
                      => new # Zero
       /\ last'.op \in MapOps
            => \A b \in TablesOf(mem, TtbrOf(TTBR0_EL1, TTBR1_EL1, 1 - last'.reigon)) :
                  b \in DOMAIN mem' /\ mem'[b] = mem[b]]_vars

C14_Witness ==
    /\ last.op = "map_page" /\ last.reigon = 1 /\ last.res = OK
    /\ TTBR0_EL1 # Zero /\ TTBR1_EL1 # Zero
    /\ get_baddr(TTBR0_EL1) # get_baddr(TTBR1_EL1)
    /\ Walk(mem, TTBR0_EL1, Addr1).found
    /\ Walk(mem, TTBR1_EL1, AddrStack).found

-----------------------------------------------------------------------------
(* The loader's main: inputs and hardware *)

\* debug::UART0 = 0x0900_0000
UART0 == <<0, 9, 0>>

\* the page budget main passes to METADATA.init
PoolPages == 1024

\* setup_kernel_stack: STACK_PAGES
STACK_PAGES == 512

\* size_of::<BootInfo>() : AddressRange (16 bytes) and a usize, repr(C, align(16))
BootInfoSize == 32

\* all 64 bits set
AllOnes == <<W16 - 1, W24 - 1, W24 - 1>>

\* common::align_up : (value + alignment - 1) & !(alignment - 1)
align_up(value, alignment) ==
    AndW(AddW(value, SubW(alignment, FromNat(1))),
         SubW(AllOnes, SubW(alignment, FromNat(1))))

\* AddressRange::new_range(start, end), start <= end asserted by the caller below
new_range(start, end) == AddressRange(start, SubW(end, start))

\* __load_start, __load_end of the loader image: 0x4008_0000..0x4008_2800; a start that
\* is not granule-aligned; an image that holds the page of UART0
LoaderImages ==
    { [load_start |-> <<0, 64, 524288>>, load_end |-> <<0, 64, 534528>>],
      [load_start |-> <<0, 64, 526336>>, load_end |-> <<0, 64, 534528>>],
      [load_start |-> <<0, 8, 16773120>>, load_end |-> <<0, 9, 2048>>] }

\* The translation the enabled MMU performs for a data access, as enable() sets it up:
\* TBI0/TBI1 (bits 63..56 ignored), bit 55 selects the half, T1SZ = 16 (bits 54..48 all
\* one, walk from TTBR1_EL1), T0SZ = 24 (bits 54..40 all zero, walk from TTBR0_EL1), 4 KiB
\* granule. [ok, pa]: pa is the physical address of the page of va.
Translate(m, t0, t1, mmu, va, write) ==
    LET page == AndW(va, SubW(AllOnes, SubW(SIZE, FromNat(1))))
        high == ((va[1] \div 128) % 2) = 1
        w == IF high THEN Walk(m, t1, va) ELSE Walk(m, t0, va)
        inrange == IF high THEN (va[1] % 256) = 255
                   ELSE (va[1] % 256) = 0 /\ va[2] < W16
    IN  IF ~mmu THEN [ok |-> TRUE, pa |-> page]
        ELSE IF ~inrange \/ ~w.found THEN [ok |-> FALSE, pa |-> Zero]
        ELSE IF FieldRead(PD_AF, w.desc) = FromNat(0) THEN [ok |-> FALSE, pa |-> Zero]
        ELSE IF write /\ FieldRead(PD_AP, w.desc) = FromNat(AP_RO_EL1)
          THEN [ok |-> FALSE, pa |-> Zero]
        ELSE [ok |-> TRUE, pa |-> OutputAddr(w.desc)]

\* enable(): the register writes and barriers, in program order
enable_writes_unbarriered == <<"MAIR_EL1", "TCR_EL1", "SCTLR_EL1.M", "ISB", "ISB">>

enable_writes == <<"MAIR_EL1", "TCR_EL1", "ISB", "SCTLR_EL1.M", "ISB">>

\* .expect(..) that lets the sequence go on after an Err
expect_ignored(res, next) == IF IsPanic(res) THEN "panic" ELSE next

\* .expect(..) on the Result of a step: the next position, or the panic
expect(res, next) == IF res = OK THEN next ELSE "panic"

NoElf == [ok |-> FALSE, segs |-> <<>>, rela |-> FALSE, entry |-> Zero]

NoBootInfo == [at |-> Zero, used_pages |-> AddressRange(Zero, Zero)]

\* reset: nothing masked, no vector base, MMU off, METADATA as its static initialiser
InitBoot ==
    /\ METADATA = MetadataNew
    /\ TTBR0_EL1 = Zero
    /\ TTBR1_EL1 = Zero
    /\ mem = [b \in {} |-> ZeroPage]
    /\ overflow_checks \in BOOLEAN
    /\ granted = <<>>
    /\ held = <<>>
    /\ last = NoCall
    /\ steps = 0
    /\ \E image \in LoaderImages :
          boot = [pc |-> "main", log |-> <<>>, daif |-> {}, vbar |-> FALSE, mmu |-> FALSE,
                  image |-> image, elf |-> NoElf, stack_end |-> Zero,
                  segpages |-> <<>>,
                  data |-> [a \in {} |-> <<>>], copied |-> 0,
                  boot_info |-> NoBootInfo, sp |-> Zero, br |-> Zero]

EngineIdle == UNCHANGED <<METADATA, TTBR0_EL1, TTBR1_EL1, mem, overflow_checks, granted, held, last>>

\* --- main, one action per step of the sequence ---

\* the core executes one more step of main
Tick == steps' = steps + 1

\* a DAIF.write that leaves F open
BootMaskExceptions_fiq_open ==
    /\ boot.pc = "main"
    /\ Tick
    /\ boot' = [boot EXCEPT !.pc = "cpacr", !.daif = {"D", "A", "I"},
                            !.log = Append(@, "DAIF")]
    /\ EngineIdle

\* DAIF.write(DAIF::D::Masked + DAIF::A::Masked + DAIF::F::Masked + DAIF::I::Masked)
BootMaskExceptions ==
    /\ boot.pc = "main"
    /\ Tick
    /\ boot' = [boot EXCEPT !.pc = "cpacr", !.daif = {"D", "A", "I", "F"},
                            !.log = Append(@, "DAIF")]
    /\ EngineIdle

\* CPACR_EL1.write(CPACR_EL1::FPEN::NONE)
BootCpacr ==
    /\ boot.pc = "cpacr"
    /\ Tick
    /\ boot' = [boot EXCEPT !.pc = "handling_init", !.log = Append(@, "CPACR_EL1")]
    /\ EngineIdle

\* exception::handling_init : VBAR_EL1.set(vectors); isb
BootHandlingInit ==
    /\ boot.pc = "handling_init"
    /\ Tick
    /\ boot' = [boot EXCEPT !.pc = "init", !.vbar = TRUE,
                            !.log = @ \o <<"VBAR_EL1", "ISB">>]
    /\ EngineIdle

\* METADATA.init(align_up(__load_end, SIZE).into(), 1024)
BootAllocatorInit ==
    /\ boot.pc = "init"
    /\ Tick
    /\ METADATA' = MetadataInit(align_up(boot.image.load_end, SIZE), FromNat(PoolPages))
    /\ last' = [NoCall EXCEPT !.op = "init", !.paddr = align_up(boot.image.load_end, SIZE),
                              !.num = FromNat(PoolPages)]
    /\ boot' = [boot EXCEPT !.pc = "map_image", !.log = Append(@, "METADATA.init")]
    /\ UNCHANGED <<TTBR0_EL1, TTBR1_EL1, mem, overflow_checks, granted, held>>

\* one map_range call of setup_kernel_mmu and the .expect on it
BootMapRange(range, next) ==
    \E r \in {map_range(State, 0, range, AttrRWX)} :
        /\ Commit(r.st)
        /\ last' = [NoCall EXCEPT !.op = "map_range", !.reigon = 0,
                                  !.paddr = range.addr, !.psize = range.size,
                                  !.vaddr = map_to_vaddr(range.addr), !.vsize = range.size,
                                  !.attr = AttrRWX, !.res = r.res, !.done = r.done]
        /\ boot' = [boot EXCEPT !.pc = expect(r.res, next)]
        /\ UNCHANGED held

\* ttbl0.map_range(new_range(__load_start, __load_end), ..).expect("Failed to map image")
BootMapImage ==
    /\ boot.pc = "map_image"
    /\ Tick
    /\ BootMapRange(new_range(boot.image.load_start, boot.image.load_end), "map_pool")

\* a setup_kernel_mmu that maps the first page of the pool only
BootMapPool_first_page ==
    /\ boot.pc = "map_pool"
    /\ Tick
    /\ BootMapRange(AddressRange(METADATA.start, SIZE), "map_uart")

\* ttbl0.map_range(METADATA.range(), ..).expect("Failed to map page pool")
BootMapPool ==
    /\ boot.pc = "map_pool"
    /\ Tick
    /\ BootMapRange(new_range(METADATA.start, METADATA.end), "map_uart")

\* ttbl0.map_page(UART0, UART0, Device RW XN).expect("Failed to map UART0")
BootMapUart ==
    /\ boot.pc = "map_uart"
    /\ Tick
    /\ \E r \in {map_page(State, 0, UART0, UART0, AttrDev)} :
          /\ Commit(r.st)
          /\ last' = [NoCall EXCEPT !.op = "map_page", !.reigon = 0, !.paddr = UART0,
                                    !.vaddr = UART0, !.attr = AttrDev, !.res = r.res,
                                    !.iters = r.iters]
          /\ boot' = [boot EXCEPT !.pc = expect(r.res, "enable")]
    /\ UNCHANGED held

\* mmu.enable() : set_up_mair, TCR_EL1.write, isb, SCTLR_EL1.write(M::Enable), isb
BootEnable ==
    /\ boot.pc = "enable"
    /\ Tick
    /\ boot' = [boot EXCEPT !.pc = "stack", !.mmu = TRUE, !.log = @ \o enable_writes]
    /\ EngineIdle

\* a panic handler that starts main over
BootOnPanic_resets ==
    /\ boot.pc = "panic"
    /\ Tick
    /\ boot' = [boot EXCEPT !.pc = "main", !.log = Append(@, "println")]
    /\ EngineIdle

\* panic::on_panic : println!("{}", info); loop {}
BootOnPanic ==
    /\ boot.pc = "panic"
    /\ Tick
    /\ boot' = [boot EXCEPT !.pc = "halted", !.log = Append(@, "println")]
    /\ EngineIdle

\* setup_kernel_stack : alloc_pages(STACK_PAGES).expect("No enough stack size"), then
\* ttbl1.map_range_with(stack_pages.range(), stack_vrange, ..).expect("Failed to map stack")
setup_kernel_stack(st) ==
    LET stack_vrange == AddressRange(AddrStack, ShlW(FromNat(STACK_PAGES), SHIFT))
    IN  The({ IF a.res # OK THEN [st |-> a.st, res |-> a.res, stack_end |-> Zero]
              ELSE The({ [st |-> m.st,
                          res |-> IF m.res # OK THEN m.res
                                  ELSE scope_end(m.st, ManuallyDrop_new(a.page)),
                          stack_end |-> AddW(stack_vrange.addr, stack_vrange.size)] :
                         m \in {map_range_with(a.st, 1, PageRange(a.page), stack_vrange,
                                               AttrStack)} }) :
              a \in {alloc_pages(st, FromNat(STACK_PAGES))} })

BootStack ==
    /\ boot.pc = "stack"
    /\ Tick
    /\ \E r \in {setup_kernel_stack(State)} :
          /\ Commit(r.st)
          /\ last' = [NoCall EXCEPT !.op = "setup_kernel_stack", !.reigon = 1,
                                    !.vaddr = AddrStack, !.res = r.res]
          /\ boot' = [boot EXCEPT !.pc = expect(r.res, "elf_new"), !.stack_end = r.stack_end]
    /\ UNCHANGED held

\* --- the embedded kernel image ---

\* a virtual address of the high half, 0xFFFF_0000_4000_0000
VHigh == <<65535, 64, 0>>

\* 0x4000_0000, below the loader image: no identity mapping covers it
VLow == <<0, 64, 0>>

\* a page of the identity-mapped pool that the boot never hands out, 0x4046_B000
VPool == <<0, 64, 4632576>>

Segment(va, mem_size, file_size, w, x) ==
    [va |-> va, mem_size |-> mem_size, file_size |-> file_size, w |-> w, x |-> x]

Elf(segs, rela, entry) == [ok |-> TRUE, segs |-> segs, rela |-> rela, entry |-> entry]

\* what include_bytes!("../stellaros") can hold: its loadable program headers, whether it
\* carries relocation entries, its entry point
KernelElfs ==
    { NoElf,
      Elf(<<Segment(VHigh, 1, 1, FALSE, TRUE)>>, FALSE, VHigh),
      Elf(<<Segment(VLow, 1, 1, FALSE, TRUE)>>, FALSE, VLow),
      Elf(<<Segment(VPool, 1, 1, FALSE, TRUE)>>, FALSE, VPool),
      Elf(<<Segment(VHigh, 4097, 4097, FALSE, TRUE),
            Segment(AddW(VHigh, FromNat(65536)), 8192, 16, TRUE, FALSE)>>, FALSE, VHigh),
      Elf(<<Segment(VHigh, 4096, 4096, FALSE, TRUE)>>, TRUE, VHigh),
      Elf(<<Segment(VHigh, 600 * 4096, 4096, FALSE, TRUE)>>, FALSE, VHigh),
      Elf(<<Segment(VHigh, 4096, 100, FALSE, TRUE),
            Segment(VHigh, 4096, 100, TRUE, FALSE)>>, FALSE, VHigh),
      Elf(<<Segment(AddW(VHigh, FromNat(16)), 4096, 100, FALSE, TRUE)>>, FALSE, VHigh),
      Elf(<<Segment(VHigh, 0, 0, FALSE, FALSE)>>, FALSE, VHigh) }

\* what follows the copy of the i-th loadable header in ElfBinary::load: the next header,
\* then the relocation entries if there are any
AfterLoad(elf, i) ==
    IF i < Len(elf.segs) THEN "load" ELSE IF elf.rela THEN "relocate" ELSE "jump"

\* flags_to_attributes that follows the writable flag
flags_to_attributes_strict(w, x) ==
    [mem_attributes |-> "CacheableDRAM",
     acc_perms |-> IF w THEN "ReadWrite" ELSE "ReadOnly",
     execute_never |-> ~x]

\* main.rs : flags_to_attributes
flags_to_attributes(w, x) ==
    [mem_attributes |-> "CacheableDRAM",
     acc_perms |-> IF w THEN "ReadWrite" ELSE "ReadWrite",
     execute_never |-> ~x]

\* an aligned_size rounded down
aligned_size_truncated(mem_size) == ShlW(ShrW(FromNat(mem_size), SHIFT), SHIFT)

\* KernelLoader::allocate : aligned_size = align_up(header.mem_size() as usize, SIZE)
aligned_size(mem_size) == align_up(FromNat(mem_size), SIZE)

\* KernelLoader::allocate, the headers from the i-th on; pages: the backing pages of each
\* header done so far
RECURSIVE allocate(_, _, _, _)
allocate(st, segs, i, backing) ==
    IF i > Len(segs) THEN [st |-> st, res |-> OK, pages |-> backing]
    ELSE LET header == segs[i]
             size == aligned_size(header.mem_size)
             pages_num == ShrW(size, SHIFT)
         IN  The({ IF a.res # OK THEN [st |-> a.st, res |-> a.res, pages |-> backing]
                   ELSE The({ IF scope_end(m.st, ManuallyDrop_new(a.page)) # OK /\ ~IsPanic(m.res)
                                THEN [st |-> m.st, res |-> PanicDrop,
                                      pages |-> Append(backing, a.page)]
                              ELSE IF m.res # OK
                                THEN [st |-> m.st, res |-> m.res,
                                      pages |-> Append(backing, a.page)]
                              ELSE allocate(m.st, segs, i + 1, Append(backing, a.page)) :
                              m \in {map_range_with(a.st, 1, PageRange(a.page),
                                                    AddressRange(header.va, size),
                                                    flags_to_attributes(header.w, header.x))} }) :
                   a \in {alloc_pages(st, pages_num)} })

\* ElfBinary::new("test", kernel_elf()).expect("Got proper ELF section")
BootElfNew ==
    /\ boot.pc = "elf_new"
    /\ Tick
    /\ \E elf \in KernelElfs :
          boot' = [boot EXCEPT !.elf = elf, !.pc = IF elf.ok THEN "allocate" ELSE "panic"]
    /\ EngineIdle

\* binary.load(&mut loader): first loader.allocate(all loadable headers)
BootAllocate ==
    /\ boot.pc = "allocate"
    /\ Tick
    /\ \E r \in {allocate(State, boot.elf.segs, 1, <<>>)} :
          /\ Commit(r.st)
          /\ last' = [NoCall EXCEPT !.op = "allocate", !.reigon = 1, !.res = r.res]
          /\ boot' = [boot EXCEPT !.pc = expect(r.res, AfterLoad(boot.elf, 0)), !.segpages = r.pages]
    /\ UNCHANGED held

\* the granule of an address, and its offset in the granule
PageOf(a) == AndW(a, SubW(AllOnes, SubW(SIZE, FromNat(1))))
OffsetOf(a) == ToNat(AndW(a, SubW(SIZE, FromNat(1))))

Min(a, b) == IF a < b THEN a ELSE b

\* the granules core::ptr::copy(region, base, len) writes, in address order: the page, the
\* offset of the first byte written in it, the index in region of that byte, the byte count
Chunks(base, len) ==
    LET off0 == OffsetOf(base)
        count == (off0 + len + 4095) \div 4096
    IN  IF len = 0 THEN <<>>
        ELSE [k \in 1..count |->
                LET off == IF k = 1 THEN off0 ELSE 0
                    first == IF k = 1 THEN 0 ELSE (k - 1) * 4096 - off0
                IN  [page |-> AddW(PageOf(base), Bytes(k - 1)), off |-> off,
                     first |-> first, len |-> Min(4096 - off, len - first)]]

DataAbort == "exception: data abort"

\* core::ptr::copy : the stores of the copy, chunk k through the translation trs[k]; a
\* store that does not translate raises a data abort and the copy stops there
copy(data, seg, chunks, trs) ==
    LET bad == {k \in 1..Len(chunks) : ~trs[k].ok}
        n == IF bad = {} THEN Len(chunks)
             ELSE (CHOOSE k \in bad : \A j \in bad : k <= j) - 1
        ws == [k \in 1..n |-> [seg |-> seg, pa |-> trs[k].pa, off |-> chunks[k].off,
                               first |-> chunks[k].first, len |-> chunks[k].len]]
        touched == {trs[k].pa : k \in 1..n}
    IN  [data |-> [a \in (DOMAIN data) \cup touched |->
                      (IF a \in DOMAIN data THEN data[a] ELSE <<>>)
                          \o SelectSeq(ws, LAMBDA w : w.pa = a)],
         res |-> IF bad = {} THEN OK ELSE DataAbort]

\* KernelLoader::load(flags, base, region) for the next loadable header
BootLoad ==
    /\ boot.pc = "load"
    /\ Tick
    /\ boot.copied < Len(boot.elf.segs)
    /\ \E chunks \in {Chunks(boot.elf.segs[boot.copied + 1].va,
                             boot.elf.segs[boot.copied + 1].file_size)} :
       \E trs \in {[k \in 1..Len(chunks) |->
                      Translate(mem, TTBR0_EL1, TTBR1_EL1, boot.mmu, chunks[k].page, TRUE)]} :
       \E r \in {copy(boot.data, boot.copied + 1, chunks, trs)} :
          boot' = [boot EXCEPT !.data = r.data,
                               !.copied = IF r.res = OK THEN @ + 1 ELSE @,
                               !.pc = IF r.res = OK THEN AfterLoad(boot.elf, boot.copied + 1)
                                      ELSE "exception"]
    /\ EngineIdle

ErrRelocation == "Err: Relocation not supported"

\* the relocation entries (Rela<P64>) an image can present: where, of what kind, the addend
RelaEntries ==
    [offset : {VHigh, VLow}, type : {"R_AARCH64_RELATIVE", "R_AARCH64_ABS64"},
     addend : {Zero, Addr1}]

\* a relocate that lets the entry pass
relocate_accepts(st, data, entry) == [st |-> st, data |-> data, res |-> OK]

\* KernelLoader::relocate : [st, data, res] with the machine state and the loaded bytes
relocate(st, data, entry) == [st |-> st, data |-> data, res |-> ErrRelocation]

\* the first relocation entry of the image is presented to loader.relocate, whose Err
\* ElfBinary::load returns and main's expect unwraps
BootRelocate ==
    /\ boot.pc = "relocate"
    /\ Tick
    /\ \E entry \in RelaEntries :
          \E r \in {relocate(State, boot.data, entry)} :
              /\ Commit(r.st)
              /\ last' = [NoCall EXCEPT !.op = "relocate", !.vaddr = entry.offset,
                                        !.res = r.res]
              /\ boot' = [boot EXCEPT !.pc = expect(r.res, "jump"), !.data = r.data]
    /\ UNCHANGED held

\* a jump_to_entry that records the whole pool
jump_to_entry_whole_pool(b, meta, m, t0, t1) ==
    LET at == SubW(b.stack_end, FromNat(BootInfoSize))
        tr == Translate(m, t0, t1, b.mmu, at, TRUE)
    IN  IF ~tr.ok THEN [b EXCEPT !.pc = "exception"]
        ELSE [b EXCEPT !.pc = "handoff",
                       !.log = Append(@, "println"),
                       !.boot_info = [at |-> at, used_pages |-> new_range(meta.start, meta.end)],
                       !.sp = at,
                       !.br = b.elf.entry]

\* jump_to_entry(binary.entry_point(), stack_end)
jump_to_entry(b, meta, m, t0, t1) ==
    LET at == SubW(b.stack_end, FromNat(BootInfoSize))
        tr == Translate(m, t0, t1, b.mmu, at, TRUE)
    IN  IF ~tr.ok THEN [b EXCEPT !.pc = "exception"]
        ELSE [b EXCEPT !.pc = "handoff",
                       !.log = Append(@, "println"),
                       !.boot_info = [at |-> at, used_pages |-> new_range(meta.start, meta.top)],
                       !.sp = at,
                       !.br = b.elf.entry]

BootJump ==
    /\ boot.pc = "jump"
    /\ Tick
    /\ boot' = jump_to_entry(boot, METADATA, mem, TTBR0_EL1, TTBR1_EL1)
    /\ EngineIdle

\* exception::default_exception_handler : panic!
BootException ==
    /\ boot.pc = "exception"
    /\ Tick
    /\ boot' = [boot EXCEPT !.pc = "panic", !.log = Append(@, "exception")]
    /\ EngineIdle

NextBoot ==
    \/ BootMaskExceptions
    \/ BootCpacr
    \/ BootHandlingInit
    \/ BootAllocatorInit
    \/ BootMapImage
    \/ BootMapPool
    \/ BootMapUart
    \/ BootEnable
    \/ BootStack
    \/ BootElfNew
    \/ BootAllocate
    \/ BootLoad
    \/ BootRelocate
    \/ BootJump
    \/ BootException
    \/ BootOnPanic

SpecBoot == InitBoot /\ [][NextBoot]_vars

\* the positions of main that have a next step
Running == boot.pc \notin {"none", "handoff", "halted"}

\* one core, D, A, I and F masked: while main has a next step, the core executes it
SpecBootFair == SpecBoot /\ WF_steps(Running /\ Tick)

BootTypeOK == boot.pc \in {"main", "cpacr", "handling_init", "init", "map_image", "map_pool",
                           "map_uart", "enable", "stack", "elf_new", "allocate", "load",
                           "relocate", "jump", "exception", "panic", "handoff", "halted"}

-----------------------------------------------------------------------------
(* Properties of the boot sequence *)

\* C18: in main, D, A, I and F are all masked and VBAR_EL1 is installed in the state from
\* which the allocator state, any translation table or TTBR0_EL1/TTBR1_EL1 is written, so
\* before the first such write.
C18_MaskedBeforeState ==
    [][(METADATA' # METADATA \/ mem' # mem \/ TTBR0_EL1' # TTBR0_EL1 \/ TTBR1_EL1' # TTBR1_EL1)
       => (boot.daif = {"D", "A", "I", "F"} /\ boot.vbar)]_vars

C18_Witness ==
    /\ boot.pc = "map_pool"
    /\ METADATA # MetadataNew
    /\ TTBR0_EL1 # Zero
    /\ boot.daif = {"D", "A", "I", "F"}

\* C15: the MMU goes from disabled to enabled only in enable(), whose writes are, in this
\* order, MAIR_EL1, TCR_EL1, an ISB, the M bit of SCTLR_EL1, an ISB; no step takes it from
\* enabled back to disabled.
C15_EnableOrder ==
    [][/\ boot.mmu => boot'.mmu
       /\ (~boot.mmu /\ boot'.mmu) =>
             /\ boot.pc = "enable"
             /\ boot'.log = boot.log \o <<"MAIR_EL1", "TCR_EL1", "ISB", "SCTLR_EL1.M", "ISB">>]_vars

C15_Witness ==
    /\ boot.mmu
    /\ boot.pc = "handoff"
    /\ Len(boot.log) >= 5

\* the pages of range are identity-mapped in the low-half tables
IdentityMapped(range) ==
    \A i \in 1..Len(pages(range)) : Resolves(mem, TTBR0_EL1, pages(range)[i], pages(range)[i])

\* the three mappings of setup_kernel_mmu are in the low-half tables
LowHalfBuilt ==
    /\ last.res = OK \/ last.op \notin MapOps
    /\ IdentityMapped(new_range(boot.image.load_start, boot.image.load_end))
    /\ IdentityMapped(new_range(METADATA.start, METADATA.end))
    /\ LET w == Walk(mem, TTBR0_EL1, UART0)
       IN  w.found /\ OutputAddr(w.desc) = UART0 /\ AttrBitsAre(w.desc, AttrDev)

\* C17: whenever the MMU is enabled, the image range, the pool range [start, end) and the
\* UART0 page (Device, read-write, execute-never) are identity-mapped in the low half; when
\* one of the three mapping calls does not return Ok the MMU stays disabled and the boot is
\* in its panic.
C17_EnableAfterIdentityMaps ==
    /\ boot.mmu => LowHalfBuilt
    /\ (boot.pc # "none" /\ last.op \in MapOps /\ last.res # OK)
          => (~boot.mmu /\ boot.pc \in {"panic", "halted"})

C17_Witness ==
    /\ boot.mmu
    /\ boot.pc = "stack"
    /\ last.op = "map_page"
    /\ last.res = OK
    /\ Resolves(mem, TTBR0_EL1, UART0, UART0)

\* a mapping step of setup_kernel_mmu failed: the boot halted with the MMU off
C17_FailureWitness ==
    /\ boot.pc = "halted"
    /\ last.op = "map_page"
    /\ last.res = ErrPage
    /\ ~boot.mmu

\* the boot sequence next to a client that calls the allocator on its own, initialised or not
InitBootAlloc == InitBoot \/ Init

NextBootAlloc == NextBoot \/ NextAlloc

SpecBootAlloc == InitBootAlloc /\ [][NextBootAlloc]_vars

\* the steps of main that call alloc_pages, directly or through the engine
AllocatingOps == {"map_range", "map_page", "setup_kernel_stack", "allocate"}

\* In main the allocator state is written once, from its static initialiser, to the least
\* granule multiple at or above __load_end with room for 1024 pages, and every step that
\* calls alloc_pages starts from the initialised state.
C16_BootOrder ==
    [][boot.pc # "none" =>
         /\ (METADATA'.start # METADATA.start \/ METADATA'.end # METADATA.end) =>
               /\ boot.pc = "init"
               /\ METADATA = MetadataNew
               /\ is_aligned(METADATA'.start, SIZE)
               /\ LeW(boot.image.load_end, METADATA'.start)
               /\ LtW(METADATA'.start, AddW(boot.image.load_end, SIZE))
               /\ METADATA'.top = METADATA'.start
               /\ METADATA'.end = AddW(METADATA'.start, ShlW(FromNat(1024), SHIFT))
         /\ (last' # last /\ last'.op \in AllocatingOps) => METADATA.start # Zero
         /\ granted' # granted => METADATA.start # Zero]_vars

\* C16: C16_BootOrder, and an alloc_pages call made with start = 0 ends in the assertion
\* METADATA.start != 0 and hands out no page.
C16_InitOnceBeforeAlloc ==
    [][/\ boot.pc # "none" =>
            /\ (METADATA'.start # METADATA.start \/ METADATA'.end # METADATA.end) =>
                  /\ boot.pc = "init"
                  /\ METADATA = MetadataNew
                  /\ is_aligned(METADATA'.start, SIZE)
                  /\ LeW(boot.image.load_end, METADATA'.start)
                  /\ LtW(METADATA'.start, AddW(boot.image.load_end, SIZE))
                  /\ METADATA'.top = METADATA'.start
                  /\ METADATA'.end = AddW(METADATA'.start, ShlW(FromNat(1024), SHIFT))
            /\ (last' # last /\ last'.op \in AllocatingOps) => METADATA.start # Zero
            /\ granted' # granted => METADATA.start # Zero
       /\ (last' # last /\ last'.op = "alloc_pages" /\ METADATA.start = Zero) =>
             (last'.res = PanicNotInit /\ granted' = granted)]_vars

\* what does hold of a call with start = 0: it panics and hands out no page
C16_UninitialisedPanics ==
    [][(last' # last /\ last'.op = "alloc_pages" /\ METADATA.start = Zero) =>
          (IsPanic(last'.res) /\ granted' = granted)]_vars

\* the byte a load from v returns: of which segment, at which index of its file bytes
NoByte == [seg |-> 0, index |-> 0]

ByteAt(v) ==
    LET tr == Translate(mem, TTBR0_EL1, TTBR1_EL1, boot.mmu, v, FALSE)
        off == OffsetOf(v)
        ws == IF tr.ok /\ tr.pa \in DOMAIN boot.data THEN boot.data[tr.pa] ELSE <<>>
        hits == {k \in 1..Len(ws) : ws[k].off <= off /\ off < ws[k].off + ws[k].len}
    IN  IF hits = {} THEN NoByte
        ELSE LET k == CHOOSE h \in hits : \A g \in hits : g <= h
             IN  [seg |-> ws[k].seg, index |-> ws[k].first + (off - ws[k].off)]

\* KernelLoader::allocate returned Ok for the image being loaded
AllocateDone == boot.pc # "none" /\ last.op = "allocate" /\ last.res = OK

CeilPages(n) == (n + 4095) \div 4096

\* the j-th loadable header has its backing pages: one grant of ceil(mem_size / 4096)
\* pages, mapped page by page from va in the tables of TTBR1_EL1
SegmentBacked(j) ==
    LET header == boot.elf.segs[j]
        backing == boot.segpages[j]
    IN  /\ backing.num = FromNat(CeilPages(header.mem_size))
        /\ Cardinality({g \in 1..Len(granted) : granted[g] = backing}) = 1
        /\ \A k \in 0..(CeilPages(header.mem_size) - 1) :
              Resolves(mem, TTBR1_EL1, PageAt(header.va, k), PageAt(backing.base, k))

\* the file bytes of the j-th header whose read-back is checked: the first, the last, and
\* those on both sides of the first page boundary
ProbedBytes(j) ==
    {0, 4095, 4096, boot.elf.segs[j].file_size - 1} \cap 0..(boot.elf.segs[j].file_size - 1)

\* C13: once allocate has returned Ok, every loadable segment (mem size s, address va) has
\* exactly ceil(s / 4096) backing pages from one alloc_pages call, mapped contiguously from
\* va in the high-half tables; once load has copied a segment, a read at va + i returns
\* byte i of its file bytes; and a copy step starts only with all segments mapped.
C13_SegmentsLoaded ==
    /\ [](AllocateDone =>
            /\ Len(boot.segpages) = Len(boot.elf.segs)
            /\ \A j \in 1..Len(boot.elf.segs) : SegmentBacked(j)
            /\ \A j \in 1..boot.copied : \A i \in ProbedBytes(j) :
                  ByteAt(AddW(boot.elf.segs[j].va, FromNat(i))) = [seg |-> j, index |-> i])
    /\ [][boot'.data # boot.data =>
            (AllocateDone /\ \A j \in 1..Len(boot.elf.segs) : SegmentBacked(j))]_vars

\* both segments of the two-segment image are in place at handoff: 4097 bytes on two
\* pages, 16 bytes on the first of two pages
C13_Witness ==
    /\ boot.pc = "handoff"
    /\ Len(boot.elf.segs) = 2
    /\ boot.copied = 2
    /\ boot.segpages[1].num = FromNat(2)
    /\ ByteAt(AddW(VHigh, FromNat(4096))) = [seg |-> 1, index |-> 4096]
    /\ ByteAt(AddW(VHigh, FromNat(65536 + 15))) = [seg |-> 2, index |-> 15]

\* the exclusive end of the stack's virtual range: 0xFFFF_1000_0000_0000 + 512 pages
StackEnd == AddW(AddrStack, ShlW(FromNat(512), SHIFT))

\* the 512 pages below StackEnd resolve, in the high-half tables, to one granted run
StackMapped ==
    \E g \in 1..Len(granted) :
        /\ granted[g].num = FromNat(512)
        /\ \A k \in 0..511 :
              Resolves(mem, TTBR1_EL1, PageAt(AddrStack, k), PageAt(granted[g].base, k))

\* every page handed out lies in [lo, hi)
GrantedWithin(lo, hi) ==
    \A g \in 1..Len(granted) :
        /\ LeW(lo, granted[g].base)
        /\ LeW(AddW(granted[g].base, PageSize(granted[g])), hi)

\* C19: at handoff the BootInfo record is at StackEnd - 32, inside the mapped stack; its
\* used_pages is [METADATA.start, METADATA.top), which contains every page handed out; SP is
\* the address of the record, a multiple of 16; the branch target is the ELF entry point.
C19_Handoff ==
    boot.pc = "handoff" =>
        /\ StackMapped
        /\ ~Walk(mem, TTBR1_EL1, StackEnd).found
        /\ boot.boot_info.at = SubW(StackEnd, FromNat(32))
        /\ Translate(mem, TTBR0_EL1, TTBR1_EL1, boot.mmu, boot.boot_info.at, TRUE).ok
        /\ boot.boot_info.used_pages.addr = METADATA.start
        /\ AddW(boot.boot_info.used_pages.addr, boot.boot_info.used_pages.size) = METADATA.top
        /\ GrantedWithin(boot.boot_info.used_pages.addr,
                         AddW(boot.boot_info.used_pages.addr, boot.boot_info.used_pages.size))
        /\ boot.sp = boot.boot_info.at
        /\ is_aligned(boot.sp, FromNat(16))
        /\ boot.br = boot.elf.entry

\* handoff with table pages, the stack and the pages of two segments handed out
C19_Witness ==
    /\ boot.pc = "handoff"
    /\ Len(boot.elf.segs) = 2
    /\ Len(granted) = 18
    /\ boot.sp = SubW(StackEnd, FromNat(32))
    /\ boot.br = VHigh
    /\ LtW(METADATA.top, METADATA.end)

Terminal == boot.pc \in {"handoff", "halted"}

\* the guard of the step main takes next holds: the position is one of a step, and at
\* "load" a loadable header is still to be copied
CanStep ==
    /\ boot.pc \in {"main", "cpacr", "handling_init", "init", "map_image", "map_pool",
                    "map_uart", "enable", "stack", "elf_new", "allocate", "load",
                    "relocate", "jump", "exception", "panic"}
    /\ boot.pc = "load" => boot.copied < Len(boot.elf.segs)

Failed == boot.pc \in {"panic", "exception"}

\* C20: every run of main ends at the handoff or in the halted core, and takes no step from
\* there; the handoff is reached only with the stack mapped and every loadable segment
\* backed, mapped and copied; the core halts only after the panic handler printed; a step
\* that does not return Ok leads to the panic, and from a failure the only steps are to the
\* panic handler and to the halted core, with no allocator or table state changed.
C20_TwoEndings ==
    /\ <>Terminal
    /\ [](~Terminal => CanStep)
    /\ [][~Terminal /\ steps' = steps + 1]_vars
    /\ [](boot.pc = "handoff" =>
            /\ StackMapped
            /\ AllocateDone
            /\ boot.copied = Len(boot.elf.segs)
            /\ \A j \in 1..Len(boot.elf.segs) : SegmentBacked(j))
    /\ [](boot.pc = "halted" => boot.log[Len(boot.log)] = "println")
    /\ [][/\ (last' # last /\ last'.res # OK) => boot'.pc = "panic"
          /\ Failed => (boot'.pc \in {"panic", "halted"}
                        /\ UNCHANGED <<METADATA, TTBR0_EL1, TTBR1_EL1, mem, granted>>)]_vars

\* halted after the relocation entry was refused, the segment already copied
C20_Witness ==
    /\ boot.pc = "halted"
    /\ boot.elf.rela
    /\ boot.copied = 1
    /\ boot.mmu

-----------------------------------------------------------------------------
(* free_pages and the destruction of a Page handle, by a client of the allocator *)

\* a handle made with Page::from_raw, never granted by the allocator
ForgedPage == Page(Addr3, FromNat(2))

\* the handles the client can pass: its own, and the forged one
ClientPages == { held[i] : i \in 1..Len(held) } \cup {ForgedPage}

\* StackPageAllocator::free_pages(&mut page) called by the client: the handle stays with it
CallFreePages ==
    /\ boot.pc = "none"
    /\ ~Halted
    /\ \E page \in ClientPages :
          \E r \in {free_pages(State, page)} :
              /\ Commit(r.st)
              /\ last' = [NoCall EXCEPT !.op = "free_pages", !.page = page, !.res = r.res]
    /\ UNCHANGED <<held, boot, steps>>

\* a Page handle of the client goes out of scope: Drop for Page runs
CallDropPage ==
    /\ boot.pc = "none"
    /\ ~Halted
    /\ \E page \in ClientPages :
          \E r \in {drop(State, page)} :
              /\ Commit(r.st)
              /\ last' = [NoCall EXCEPT !.op = "drop", !.page = page, !.res = r.res]
              /\ held' = SelectSeq(held, LAMBDA h : h # page)
    /\ UNCHANGED <<boot, steps>>

NextFree ==
    \/ CallInit
    \/ CallAllocPagesAny
    \/ CallFreePages
    \/ CallDropPage

SpecFree == Init /\ [][NextFree]_vars

\* C21: every free_pages call returns the "not supported" error and leaves the allocator
\* metadata, the granted pages, the tables and the caller's handles as they were; every
\* destruction of a Page handle ends in the panic of the expect on that error, with the
\* allocator state unchanged as well.
C21_FreeNotSupported ==
    [][/\ last'.op = "free_pages" =>
            /\ last'.res = ErrFreeUnsupported
            /\ UNCHANGED <<METADATA, TTBR0_EL1, TTBR1_EL1, mem, granted, held>>
       /\ last'.op = "drop" =>
            /\ last'.res = PanicDrop
            /\ UNCHANGED <<METADATA, TTBR0_EL1, TTBR1_EL1, mem, granted>>]_vars

\* the handle of the pages granted last, at the top of the stack, was destructed
C21_Witness ==
    /\ last.op = "drop"
    /\ last.res = PanicDrop
    /\ Len(granted) > 0
    /\ last.page = granted[Len(granted)]
    /\ last.page.num # Zero
    /\ AddW(last.page.base, PageSize(last.page)) = METADATA.top

-----------------------------------------------------------------------------
(* Ownership of the pages the boot sequence allocates *)

\* C22: in the loader's boot sequence no step ends in the destruction of a Page handle:
\* the level-0 roots (into_raw), the intermediate tables, the stack pages and the segment
\* pages (ManuallyDrop) are forgotten, when the step returns Ok and when it returns an Err
\* after an allocation succeeded, so no step is a free_pages call or fails on one.
C22_NoPageDestructed ==
    boot.pc # "none" =>
        /\ last.res # PanicDrop
        /\ last.res # ErrFreeUnsupported
        /\ last.op \notin {"free_pages", "drop"}

\* the handoff, after roots, tables, the stack run and a segment run were granted
C22_Witness ==
    /\ boot.pc = "handoff"
    /\ TTBR0_EL1 # Zero
    /\ TTBR1_EL1 # Zero
    /\ \E i \in 1..Len(granted) : granted[i].num = FromNat(STACK_PAGES)
    /\ Len(boot.segpages) > 0
    /\ \A j \in 1..Len(boot.segpages) : \E i \in 1..Len(granted) : granted[i] = boot.segpages[j]

\* allocate returned an Err from map_range_with after the pages of the header were granted
C22_ErrorPathWitness ==
    /\ boot.pc = "panic"
    /\ last.op = "allocate"
    /\ last.res = ErrPage
    /\ Len(boot.segpages) = 2
    /\ \E i \in 1..Len(granted) : granted[i] = boot.segpages[2]

-----------------------------------------------------------------------------
(* Attributes: from the flags of a program header to the bits of a page descriptor *)

\* the flags of a program header, as is_read / is_write / is_execute report them
SegmentFlags == [r : BOOLEAN, w : BOOLEAN, x : BOOLEAN]

\* physical pages a descriptor is built for: 0, UART0, 0x1000_0000, 0x1000_1000,
\* 0x1000_3000, 0x4000_0000
DescriptorPages == {Zero, UART0, Addr1, Addr2, Addr1Plus3, Addr3}

InitAttr ==
    /\ Init
    /\ boot.pc = "none"

\* flags_to_attributes(&header.flags()), as KernelLoader::allocate calls it
CallFlagsToAttributes ==
    /\ \E flags \in SegmentFlags :
          /\ boot' = [pc |-> "none", flags |-> flags]
          /\ last' = [NoCall EXCEPT !.op = "flags_to_attributes",
                                    !.attr = flags_to_attributes(flags.w, flags.x)]
    /\ UNCHANGED <<METADATA, TTBR0_EL1, TTBR1_EL1, mem, overflow_checks, granted, held, steps>>

\* attributes.into() : the FieldValue of the attribute fields alone
CallAttributesInto ==
    /\ \E a \in AttributeFields :
          last' = [NoCall EXCEPT !.op = "into", !.attr = a, !.entry = attributes_into(a)]
    /\ UNCHANGED <<METADATA, TTBR0_EL1, TTBR1_EL1, mem, overflow_checks, granted, held, boot,
                   steps>>

\* the level-3 descriptor map_page composes for a page and its attributes
CallPageDescriptor ==
    /\ \E a \in AttributeFields, p \in DescriptorPages :
          last' = [NoCall EXCEPT !.op = "page_descriptor", !.attr = a, !.paddr = p,
                                 !.entry = page_descriptor(p, a)]
    /\ UNCHANGED <<METADATA, TTBR0_EL1, TTBR1_EL1, mem, overflow_checks, granted, held, boot,
                   steps>>

NextAttr ==
    \/ CallFlagsToAttributes
    \/ CallAttributesInto
    \/ CallPageDescriptor

SpecAttr == InitAttr /\ [][NextAttr]_vars

\* C23: for each of the eight combinations of segment flags, flags_to_attributes gives
\* cacheable normal memory, execute_never = not executable, and read-write access whether
\* the segment is writable or not.
C23_FlagsToAttributes ==
    last.op = "flags_to_attributes" =>
        /\ last.attr.mem_attributes = "CacheableDRAM"
        /\ last.attr.execute_never = ~boot.flags.x
        /\ last.attr.acc_perms = "ReadWrite"

\* a read-only executable segment got read-write, executable attributes
C23_Witness ==
    /\ last.op = "flags_to_attributes"
    /\ boot.flags = [r |-> TRUE, w |-> FALSE, x |-> TRUE]
    /\ last.attr = AttrRWX

\* the bits of a descriptor that carry attributes: UXN, PXN, SH, AP, AttrIndx
AttributeBits ==
    OrW(OrW(OrW(OrW(FieldVal(PD_UXN, AllOnes), FieldVal(PD_PXN, AllOnes)),
                FieldVal(PD_SH, AllOnes)),
            FieldVal(PD_AP, AllOnes)),
        FieldVal(PD_AttrIndx, AllOnes))

\* C30: the conversion of AttributeFields gives AttrIndx 1 / inner shareable for
\* CacheableDRAM and AttrIndx 0 / outer shareable for Device, AP 0b10 for ReadOnly and 0b00
\* for ReadWrite, PXN = execute_never, UXN = 1, and nothing outside these fields; no other
\* AttributeFields value converts to the same bits; the descriptor map_page composes
\* carries exactly these bits in its attribute fields.
C30_AttributesOneToOne ==
    /\ last.op = "into" =>
          /\ FieldRead(PD_AttrIndx, last.entry) =
                FromNat(IF last.attr.mem_attributes = "CacheableDRAM" THEN 1 ELSE 0)
          /\ FieldRead(PD_SH, last.entry) =
                FromNat(IF last.attr.mem_attributes = "CacheableDRAM" THEN 3 ELSE 2)
          /\ FieldRead(PD_AP, last.entry) =
                FromNat(IF last.attr.acc_perms = "ReadOnly" THEN 2 ELSE 0)
          /\ FieldRead(PD_PXN, last.entry) = FromNat(IF last.attr.execute_never THEN 1 ELSE 0)
          /\ FieldRead(PD_UXN, last.entry) = FromNat(1)
          /\ AndW(last.entry, AttributeBits) = last.entry
          /\ \A b \in AttributeFields : b # last.attr => attributes_into(b) # last.entry
    /\ last.op = "page_descriptor" =>
          /\ AndW(last.entry, AttributeBits) = attributes_into(last.attr)
          /\ \A b \in AttributeFields :
                b # last.attr => page_descriptor(last.paddr, b) # last.entry

\* a device, read-only, executable mapping converted: AttrIndx 0, outer shareable, AP 0b10
C30_Witness ==
    /\ last.op = "into"
    /\ last.attr = [mem_attributes |-> "Device", acc_perms |-> "ReadOnly",
                    execute_never |-> FALSE]
    /\ last.entry = OrW(OrW(FieldVal(PD_SH, FromNat(2)), FieldVal(PD_AP, FromNat(2))),
                        FieldVal(PD_UXN, FromNat(1)))

-----------------------------------------------------------------------------
(* Relocation *)

\* C24: every relocation entry presented to the loader is refused with "Relocation not
\* supported", with the allocator, the tables, the TTBRs and the loaded bytes unchanged;
\* the refusal takes main to the panic and from there to the halted core, so no image that
\* carries relocation entries is handed off.
C24_RelocationRejected ==
    /\ [][boot.pc = "relocate" =>
            /\ last'.op = "relocate"
            /\ last'.res = ErrRelocation
            /\ boot'.pc = "panic"
            /\ boot'.data = boot.data
            /\ UNCHANGED <<METADATA, TTBR0_EL1, TTBR1_EL1, mem, granted>>]_vars
    /\ [][(boot.pc = "panic" /\ last.op = "relocate") => boot'.pc = "halted"]_vars
    /\ [](boot.pc = "handoff" => ~boot.elf.rela)
    /\ [](boot.pc = "relocate" => boot.elf.rela)

\* the panic after the entry of an image whose segment was already copied was refused
C24_Witness ==
    /\ boot.pc = "panic"
    /\ last.op = "relocate"
    /\ last.res = ErrRelocation
    /\ boot.elf.rela
    /\ boot.copied = 1

-----------------------------------------------------------------------------
(* arch/aarch64/cpu/boot.rs : start, on every core from reset *)

\* the largest core id of the machine
MaxCoreId == 2

Cores == 0..MaxCoreId

\* bsp::cpu::BOOT_CORE_ID : the designated boot core
BOOT_CORE_ID == 0

\* cpu::smp::core_id() on a core
core_id(core) == core.id

\* CurrentEL.EL, bits [3:2]
CURRENTEL_EL == [off |-> 2, nb |-> 2]

\* CurrentEL.get() at exception level el, and CurrentEL::EL::ELn.value
CurrentEL_get(el) == FieldVal(CURRENTEL_EL, FromNat(el))
CurrentEL_value(n) == FieldVal(CURRENTEL_EL, FromNat(n))

\* map::BOOT_CORE_STACK_SIZE = 0x1_0000
BOOT_CORE_STACK_SIZE == <<0, 0, 65536>>

\* __ro_start as the linker script can place it: 0x4008_0000, or in the high half
KernelRoStarts == {<<0, 64, 524288>>, VHigh}

\* bsp::memory::phys_boot_core_stack_end
phys_boot_core_stack_end(ro_start) ==
    AddW(SubW(ro_start, BOOT_CORE_STACK_SIZE), BOOT_CORE_STACK_SIZE)

AllMasked == {"D", "A", "I", "F"}

\* a core at reset, at exception level el: nothing masked, FP/SIMD trapped, the EL2
\* registers not yet written
ResetCore(id, el) ==
    [id |-> id, pc |-> "start", el |-> el, entry_el |-> el, daif |-> {}, fpen |-> 0,
     cnthctl |-> {}, cntvoff |-> AllOnes, hcr_rw |-> FALSE,
     spsr |-> [daif |-> {}, m |-> "unknown"], elr |-> "unknown", sp_el1 |-> Zero,
     sp |-> Zero, log |-> <<>>]

\* start that leaves out the test of the core id
start_branch_any_core(core) ==
    IF CurrentEL_get(core.el) = CurrentEL_value(2) THEN "el2_to_el1_transition"
    ELSE IF CurrentEL_get(core.el) = CurrentEL_value(1) THEN "config_el1"
    ELSE "wait_forever"

\* start : where the core goes from the tests of its id and of CurrentEL
start_branch(core) ==
    IF BOOT_CORE_ID = core_id(core)
    THEN IF CurrentEL_get(core.el) = CurrentEL_value(2) THEN "el2_to_el1_transition"
         ELSE IF CurrentEL_get(core.el) = CurrentEL_value(1) THEN "config_el1"
         ELSE "wait_forever"
    ELSE "wait_forever"

\* a transition that returns before the stack pointer of EL1 is set
el2_to_el1_order_early_eret ==
    <<"CNTHCTL_EL2", "CNTVOFF_EL2", "HCR_EL2", "SPSR_EL2", "ELR_EL2", "eret", "SP_EL1">>

\* el2_to_el1_transition : its register writes and the eret, in program order
el2_to_el1_order ==
    <<"CNTHCTL_EL2", "CNTVOFF_EL2", "HCR_EL2", "SPSR_EL2", "ELR_EL2", "SP_EL1", "eret">>

\* the exception return: to the level and stack pointer SPSR_EL2.M names, at ELR_EL2, with
\* the masks of SPSR_EL2; an illegal return if the saved status names no AArch64 EL1 state
eret(core) ==
    IF core.spsr.m = "EL1h" /\ core.hcr_rw
    THEN [core EXCEPT !.pc = core.elr, !.el = 1, !.daif = core.spsr.daif, !.sp = core.sp_el1]
    ELSE [core EXCEPT !.pc = "illegal_return"]

\* one statement of el2_to_el1_transition executed on a core
exec(core, instr, stack_end) ==
    CASE instr = "CNTHCTL_EL2" -> [core EXCEPT !.cnthctl = {"EL1PCEN", "EL1PCTEN"}]
      [] instr = "CNTVOFF_EL2" -> [core EXCEPT !.cntvoff = Zero]
      [] instr = "HCR_EL2" -> [core EXCEPT !.hcr_rw = TRUE]
      [] instr = "SPSR_EL2" -> [core EXCEPT !.spsr = [daif |-> AllMasked, m |-> "EL1h"]]
      [] instr = "ELR_EL2" -> [core EXCEPT !.elr = "runtime_init"]
      [] instr = "SP_EL1" -> [core EXCEPT !.sp_el1 = stack_end]
      [] instr = "eret" -> eret(core)

InitStart ==
    /\ METADATA = MetadataNew
    /\ TTBR0_EL1 = Zero
    /\ TTBR1_EL1 = Zero
    /\ mem = [b \in {} |-> ZeroPage]
    /\ overflow_checks \in BOOLEAN
    /\ granted = <<>>
    /\ held = <<>>
    /\ last = NoCall
    /\ steps = 0
    /\ \E els \in [Cores -> 0..3], ro_start \in KernelRoStarts :
          boot = [pc |-> "start", ro_start |-> ro_start,
                  cores |-> [c \in Cores |-> ResetCore(c, els[c])]]

\* a step of core c leaves the other cores and the rest of the machine alone
CoreStep(c, core) ==
    /\ boot' = [boot EXCEPT !.cores[c] = core]
    /\ EngineIdle
    /\ UNCHANGED steps

\* start : the tests of the core id and of the exception level
StartBranch ==
    /\ boot.pc = "start"
    /\ \E c \in Cores :
          /\ boot.cores[c].pc = "start"
          /\ CoreStep(c, [boot.cores[c] EXCEPT !.pc = start_branch(boot.cores[c])])

\* config_el1 : DAIF.write(D + A + F + I masked)
StartConfigDaif ==
    /\ boot.pc = "start"
    /\ \E c \in Cores :
          /\ boot.cores[c].pc = "config_el1"
          /\ CoreStep(c, [boot.cores[c] EXCEPT !.pc = "config_el1_cpacr", !.daif = AllMasked,
                                                !.log = Append(@, "DAIF")])

\* config_el1 : CPACR_EL1.write(FPEN::NONE), then start calls runtime_init
StartConfigCpacr ==
    /\ boot.pc = "start"
    /\ \E c \in Cores :
          /\ boot.cores[c].pc = "config_el1_cpacr"
          /\ CoreStep(c, [boot.cores[c] EXCEPT !.pc = "runtime_init", !.fpen = 3,
                                                !.log = Append(@, "CPACR_EL1")])

\* el2_to_el1_transition : its next statement
StartEl2Step ==
    /\ boot.pc = "start"
    /\ \E c \in Cores :
          /\ boot.cores[c].pc = "el2_to_el1_transition"
          /\ Len(boot.cores[c].log) < Len(el2_to_el1_order)
          /\ \E instr \in {el2_to_el1_order[Len(boot.cores[c].log) + 1]} :
                CoreStep(c, exec([boot.cores[c] EXCEPT !.log = Append(@, instr)], instr,
                                 phys_boot_core_stack_end(boot.ro_start)))

NextStart ==
    \/ StartBranch
    \/ StartConfigDaif
    \/ StartConfigCpacr
    \/ StartEl2Step

SpecStart == InitStart /\ [][NextStart]_vars

\* C25: a core other than the boot core only ever waits; the boot core entered at EL2
\* goes through the EL2-to-EL1 transition; the boot core entered at EL1 reaches
\* runtime_init with D, A, I and F masked and FPEN = 0b11, written in this order; the boot
\* core entered at any other level only ever waits; so a core in runtime_init is the boot
\* core, at EL1.
C25_StartDispatch ==
    boot.pc = "start" =>
      \A c \in Cores :
        LET core == boot.cores[c]
        IN  /\ c # BOOT_CORE_ID => core.pc \in {"start", "wait_forever"}
            /\ (c = BOOT_CORE_ID /\ core.entry_el \notin {1, 2}) =>
                  core.pc \in {"start", "wait_forever"}
            /\ (c = BOOT_CORE_ID /\ core.entry_el = 2) =>
                  core.pc \in {"start", "el2_to_el1_transition", "runtime_init"}
            /\ (c = BOOT_CORE_ID /\ core.entry_el = 1) =>
                  /\ core.pc \in {"start", "config_el1", "config_el1_cpacr", "runtime_init"}
                  /\ core.pc = "runtime_init" =>
                        /\ core.daif = AllMasked
                        /\ core.fpen = 3
                        /\ core.log = <<"DAIF", "CPACR_EL1">>
            /\ core.pc = "runtime_init" => (c = BOOT_CORE_ID /\ core.el = 1)
            /\ core.pc = "wait_forever" => (core.log = <<>> /\ core.daif = {})

\* the boot core entered at EL1 is in runtime_init, a core entered at EL2 and a core
\* entered at EL1 that are not the boot core wait
C25_Witness ==
    /\ boot.pc = "start"
    /\ boot.cores[BOOT_CORE_ID].pc = "runtime_init"
    /\ boot.cores[BOOT_CORE_ID].entry_el = 1
    /\ \E c, d \in Cores :
          /\ boot.cores[c].pc = "wait_forever" /\ boot.cores[c].entry_el = 2
          /\ boot.cores[d].pc = "wait_forever" /\ boot.cores[d].entry_el = 1

IsPrefix(s, t) == Len(s) <= Len(t) /\ \A i \in 1..Len(s) : s[i] = t[i]

\* C26: the EL2-to-EL1 transition writes CNTHCTL_EL2 (EL1PCEN, EL1PCTEN), CNTVOFF_EL2 (0),
\* HCR_EL2 (RW = AArch64), SPSR_EL2 (D, A, I, F masked, EL1h), ELR_EL2 (runtime_init) and
\* SP_EL1 (the boot-core stack end) in this order and then executes eret: at every moment
\* what it has done is a prefix of this sequence, the core leaves it only by the eret, with
\* all six writes made, into runtime_init at EL1 on the boot-core stack, and no step takes
\* it back to start.
C26_TransitionOrder ==
    /\ [](boot.pc = "start" =>
            \A c \in Cores :
              LET core == boot.cores[c]
              IN  core.entry_el = 2 =>
                    /\ IsPrefix(core.log, <<"CNTHCTL_EL2", "CNTVOFF_EL2", "HCR_EL2", "SPSR_EL2",
                                            "ELR_EL2", "SP_EL1", "eret">>)
                    /\ core.pc # "illegal_return"
                    /\ (core.pc = "el2_to_el1_transition" /\ core.el = 2) \/ core.log = <<>>
                          \/ core.pc = "runtime_init"
                    /\ core.pc = "runtime_init" =>
                          /\ Len(core.log) = 7
                          /\ core.cnthctl = {"EL1PCEN", "EL1PCTEN"}
                          /\ core.cntvoff = Zero
                          /\ core.hcr_rw
                          /\ core.spsr = [daif |-> AllMasked, m |-> "EL1h"]
                          /\ core.elr = "runtime_init"
                          /\ core.sp_el1 = boot.ro_start
                          /\ core.el = 1
                          /\ core.daif = AllMasked
                          /\ core.sp = boot.ro_start)
    /\ [][boot.pc = "start" =>
            \A c \in Cores :
              boot.cores[c].pc \in {"el2_to_el1_transition", "runtime_init"} =>
                  boot'.cores[c].pc \in {"el2_to_el1_transition", "runtime_init"}]_vars

\* the boot core, entered at EL2, is in runtime_init at EL1 after the eret
C26_Witness ==
    /\ boot.pc = "start"
    /\ boot.cores[BOOT_CORE_ID].entry_el = 2
    /\ boot.cores[BOOT_CORE_ID].pc = "runtime_init"
    /\ boot.cores[BOOT_CORE_ID].el = 1
    /\ boot.cores[BOOT_CORE_ID].log[7] = "eret"

-----------------------------------------------------------------------------
(* arch/aarch64/exception.rs : an exception taken during or after the boot sequence *)

\* the entry handlers the vector table calls: current EL with SP_EL0, current EL with
\* SP_ELx, lower EL AArch64, lower EL AArch32, each for synchronous / IRQ / SError
ExceptionEntries ==
    { "current_el0_synchronous", "current_el0_irq", "current_el0_serror",
      "current_elx_synchronous", "current_elx_irq", "current_elx_serror",
      "lower_aarch64_synchronous", "lower_aarch64_irq", "lower_aarch64_serror",
      "lower_aarch32_synchronous", "lower_aarch32_irq", "lower_aarch32_serror" }

\* entry handlers of which one returns to the interrupted code
entry_handler_irq_returns(entry) ==
    IF entry = "current_elx_irq" THEN "return" ELSE "default_exception_handler"

\* what the entry handler does with the exception context
entry_handler(entry) == "default_exception_handler"

\* the positions at which the vector table of handling_init is installed and code runs:
\* the loader's main after handling_init up to the branch to the kernel, and kernel_init
\* after its own handling_init
LoaderInterruptible ==
    {"init", "map_image", "map_pool", "map_uart", "enable", "stack", "elf_new", "allocate",
     "load", "relocate", "jump", "handoff"}
KernelInterruptible == {"kernel_println"}

\* an exception is taken: the core enters the vector of its kind, with the interrupted
\* position as the return address
ExcTake ==
    /\ boot.pc \in LoaderInterruptible \cup KernelInterruptible
    /\ boot.vbar
    /\ Tick
    /\ \E entry \in ExceptionEntries :
          boot' = [pc |-> "vector", entry |-> entry, elr |-> boot.pc,
                   kernel |-> boot.pc \in KernelInterruptible] @@ boot
    /\ EngineIdle

\* the entry handler runs: it calls default_exception_handler, of the loader or of the
\* kernel; a handler that returned would resume the interrupted code
ExcEntryHandler ==
    /\ boot.pc = "vector"
    /\ Tick
    /\ boot' = [boot EXCEPT !.pc = IF entry_handler(boot.entry) = "return" THEN boot.elr
                                   ELSE IF boot.kernel THEN "kernel_exception"
                                   ELSE "exception"]
    /\ EngineIdle

\* kernel_init : handling_init()
KernelHandlingInit ==
    /\ boot.pc = "handoff"
    /\ Tick
    /\ boot' = [boot EXCEPT !.pc = "kernel_println", !.log = @ \o <<"VBAR_EL1", "ISB">>]
    /\ EngineIdle

\* kernel_init : the two println!, then qemu_exit_success()
KernelPrintln ==
    /\ boot.pc = "kernel_println"
    /\ Tick
    /\ boot' = [boot EXCEPT !.pc = "kernel_exit", !.log = @ \o <<"println", "println">>]
    /\ EngineIdle

\* default_exception_handler in the kernel : panic!
KernelException ==
    /\ boot.pc = "kernel_exception"
    /\ Tick
    /\ boot' = [boot EXCEPT !.pc = "kernel_panic", !.log = Append(@, "exception")]
    /\ EngineIdle

\* the kernel's on_panic : write_volatile(0x0900_0000, b'p'); println!; loop {}. The store
\* goes through the translation the loader left enabled; a store that faults is taken as
\* a synchronous exception from the current level
KernelOnPanic ==
    /\ boot.pc = "kernel_panic"
    /\ Tick
    /\ \E tr \in {Translate(mem, TTBR0_EL1, TTBR1_EL1, boot.mmu, UART0, TRUE)} :
          boot' = IF tr.ok /\ tr.pa = UART0
                  THEN [boot EXCEPT !.pc = "halted", !.log = @ \o <<"UART0", "println">>]
                  ELSE [boot EXCEPT !.pc = "vector", !.entry = "current_elx_synchronous",
                                    !.elr = "kernel_panic"]
    /\ EngineIdle

NextExc ==
    \/ NextBoot
    \/ ExcTake
    \/ ExcEntryHandler
    \/ KernelHandlingInit
    \/ KernelPrintln
    \/ KernelException
    \/ KernelOnPanic

SpecExc == InitBoot /\ [][NextExc]_vars

\* the positions of the loader and of the kernel that have a next step
RunningExc == boot.pc \notin {"none", "halted", "kernel_exit"}

\* one core: while the program has a next step, the core executes it
SpecExcFair == SpecExc /\ WF_steps(RunningExc /\ Tick)

\* the positions of the fatal path: the vector, the default handler, the panic handler,
\* the halted core
Fatal == {"vector", "exception", "panic", "kernel_exception", "kernel_panic", "halted"}

\* C27: whichever of the twelve entries an exception enters, the next step is the default
\* handler, then the panic, then the halted core; once an exception is taken the halted
\* core is reached, and no step leads from the fatal path back to the interrupted code.
C27_ExceptionsFatal ==
    /\ [][boot.pc = "vector" =>
            (boot'.pc = IF boot.kernel THEN "kernel_exception" ELSE "exception")]_vars
    /\ [][boot.pc = "exception" => boot'.pc = "panic"]_vars
    /\ [][boot.pc = "kernel_exception" => boot'.pc = "kernel_panic"]_vars
    /\ [][boot.pc \in {"panic", "kernel_panic"} => boot'.pc = "halted"]_vars
    /\ [][boot.pc \in Fatal => boot'.pc \in Fatal]_vars
    /\ [][boot.pc = "halted" => FALSE]_vars
    /\ [](boot.pc = "vector" => boot.entry \in ExceptionEntries /\ boot.elr \notin Fatal)
    /\ (boot.pc = "vector") ~> (boot.pc = "halted")

\* the halted core after an SError of a lower AArch32 level was taken in the kernel
C27_Witness ==
    /\ boot.pc = "halted"
    /\ "entry" \in DOMAIN boot
    /\ boot.entry = "lower_aarch32_serror"
    /\ boot.kernel
    /\ boot.elr = "kernel_println"
    /\ boot.log[Len(boot.log)] = "println"

-----------------------------------------------------------------------------
(* alloc_pages entered by two callers at once *)

Callers == {1, 2}
RaceNums == {FromNat(1), FromNat(2), FromNat(3)}

\* one caller's locals: its position in alloc_pages, num, size, the value of METADATA.top
\* it read last (a build may keep it in a register), the page it built, its result
NoCaller == [pc |-> "idle", num |-> Zero, size |-> Zero, top |-> Zero,
             page |-> Page(Zero, Zero), res |-> OK]

InitRace ==
    /\ METADATA = MetadataNew
    /\ TTBR0_EL1 = Zero
    /\ TTBR1_EL1 = Zero
    /\ mem = [b \in {} |-> ZeroPage]
    /\ overflow_checks \in BOOLEAN
    /\ granted = <<>>
    /\ held = <<>>
    /\ last = NoCall
    /\ boot = [pc |-> "none", callers |-> [c \in Callers |-> NoCaller]]
    /\ steps = 0

\* alloc_pages whose unsafe block is entered by one caller at a time
unsafe_block_locked(callers, c) ==
    \A o \in Callers \ {c} : callers[o].pc \notin {"check", "from_raw", "load", "store"}

\* unsafe { .. } in alloc_pages: entered without taking any lock
unsafe_block(callers, c) == TRUE

\* a read of METADATA.top after the first: the build either loads it again or reuses the
\* value this caller loaded before (the accesses are unsynchronized plain accesses)
top_reads(meta, caller) == {meta.top, caller.top}

\* let size = num * MmuGranule::SIZE; assert_ne!(METADATA.start.into_usize(), 0)
alloc_pages_enter(meta, oc, num) ==
    IF oc /\ ShlLoses(num, SHIFT)
      THEN [NoCaller EXCEPT !.pc = "panicked", !.num = num, !.res = PanicOverflow]
    ELSE IF meta.start = Zero
      THEN [NoCaller EXCEPT !.pc = "panicked", !.num = num, !.res = PanicNotInit]
    ELSE [NoCaller EXCEPT !.pc = "check", !.num = num, !.size = ShlW(num, SHIFT)]

\* if METADATA.top + size > METADATA.end { return Err("Page stack overflow") }
alloc_pages_check(meta, oc, caller) ==
    LET sum == AddCarry(meta.top, caller.size)
    IN  IF oc /\ sum.carry
          THEN [caller EXCEPT !.pc = "panicked", !.res = PanicOverflow]
        ELSE IF GtW(sum.sum, meta.end)
          THEN [caller EXCEPT !.pc = "returned", !.res = ErrPageStackOverflow]
        ELSE [caller EXCEPT !.pc = "from_raw", !.top = meta.top]

\* let page = Page::from_raw(METADATA.top, num), with the value top that was read
alloc_pages_from_raw(caller, top) ==
    IF trailing_zeros(top) < SHIFT
      THEN [caller EXCEPT !.pc = "panicked", !.res = PanicPageAlign]
    ELSE [caller EXCEPT !.pc = "load", !.top = top, !.page = Page(top, caller.num)]

\* METADATA.top + size, with the value top that was read
alloc_pages_load(oc, caller, top) ==
    LET sum == AddCarry(top, caller.size)
    IN  IF oc /\ sum.carry
          THEN [caller EXCEPT !.pc = "panicked", !.res = PanicOverflow]
        ELSE [caller EXCEPT !.pc = "store", !.top = sum.sum]

RaceSet(c, caller) ==
    /\ boot' = [boot EXCEPT !.callers[c] = caller]
    /\ last' = [NoCall EXCEPT !.op = "alloc_pages", !.num = caller.num,
                              !.res = caller.res, !.page = caller.page]

RaceEnter(c) ==
    /\ boot.callers[c].pc = "idle"
    /\ unsafe_block(boot.callers, c)
    /\ \E num \in RaceNums : RaceSet(c, alloc_pages_enter(METADATA, overflow_checks, num))
    /\ UNCHANGED <<METADATA, TTBR0_EL1, TTBR1_EL1, mem, overflow_checks, granted, held, steps>>

RaceCheck(c) ==
    /\ boot.callers[c].pc = "check"
    /\ RaceSet(c, alloc_pages_check(METADATA, overflow_checks, boot.callers[c]))
    /\ UNCHANGED <<METADATA, TTBR0_EL1, TTBR1_EL1, mem, overflow_checks, granted, held, steps>>

RaceFromRaw(c) ==
    /\ boot.callers[c].pc = "from_raw"
    /\ \E top \in top_reads(METADATA, boot.callers[c]) :
          RaceSet(c, alloc_pages_from_raw(boot.callers[c], top))
    /\ UNCHANGED <<METADATA, TTBR0_EL1, TTBR1_EL1, mem, overflow_checks, granted, held, steps>>

RaceLoad(c) ==
    /\ boot.callers[c].pc = "load"
    /\ \E top \in top_reads(METADATA, boot.callers[c]) :
          RaceSet(c, alloc_pages_load(overflow_checks, boot.callers[c], top))
    /\ UNCHANGED <<METADATA, TTBR0_EL1, TTBR1_EL1, mem, overflow_checks, granted, held, steps>>

\* METADATA.top = ..; Ok(page)
RaceStore(c) ==
    /\ boot.callers[c].pc = "store"
    /\ METADATA' = [METADATA EXCEPT !.top = boot.callers[c].top]
    /\ granted' = Append(granted, boot.callers[c].page)
    /\ held' = Append(held, boot.callers[c].page)
    /\ RaceSet(c, [boot.callers[c] EXCEPT !.pc = "returned"])
    /\ UNCHANGED <<TTBR0_EL1, TTBR1_EL1, mem, overflow_checks, steps>>

RaceStep(c) ==
    \/ RaceEnter(c)
    \/ RaceCheck(c)
    \/ RaceFromRaw(c)
    \/ RaceLoad(c)
    \/ RaceStore(c)

NextRace ==
    \/ CallInit
    \/ \E c \in Callers : RaceEnter(c)
    \/ \E c \in Callers : RaceCheck(c)
    \/ \E c \in Callers : RaceFromRaw(c)
    \/ \E c \in Callers : RaceLoad(c)
    \/ \E c \in Callers : RaceStore(c)

SpecRace == InitRace /\ [][NextRace]_vars

Granted(c) == boot.callers[c].pc = "returned" /\ boot.callers[c].res = OK

\* C28: alloc_pages performs no synchronization. A caller that has not returned
\* always has its next step, wherever the other caller stands. When both callers
\* were handed pages, each base is the initial top or the initial top advanced by
\* the other request, and top is the initial top advanced by one request or by
\* both; when both did all their reads of top before either wrote it, the two
\* handles have the same base and top is advanced by one request only, which is
\* less than the sum of the two.
C28_NoSynchronization ==
    /\ \A c \in Callers :
          boot.callers[c].pc \notin {"returned", "panicked"} => ENABLED RaceStep(c)
    /\ (Granted(1) /\ Granted(2)) =>
          LET a == boot.callers[1]
              b == boot.callers[2]
              both == AddW(AddW(METADATA.start, a.size), b.size)
          IN  /\ a.page.base \in {METADATA.start, AddW(METADATA.start, b.size)}
              /\ b.page.base \in {METADATA.start, AddW(METADATA.start, a.size)}
              /\ METADATA.top \in {AddW(METADATA.start, a.size),
                                   AddW(METADATA.start, b.size), both}
              /\ (a.top = AddW(METADATA.start, a.size) /\ b.top = AddW(METADATA.start, b.size))
                    => /\ a.page.base = b.page.base
                       /\ METADATA.top \in {a.top, b.top}
                       /\ LtW(METADATA.top, both)

\* both callers were handed a page with the same base, and top is advanced by less
\* than the two requests together
C28_Witness ==
    /\ Granted(1) /\ Granted(2)
    /\ boot.callers[1].page.base = boot.callers[2].page.base
    /\ LtW(METADATA.top,
           AddW(AddW(METADATA.start, boot.callers[1].size), boot.callers[2].size))
    /\ Len(held) = 2
    /\ held[1].base = held[2].base

-----------------------------------------------------------------------------
(* map_range_with and map_range on a base that is not granule-aligned *)

\* C29: map_range_with, and map_range through it, called with ranges of equal size
\* and a prange base or a vrange base that is not granule-aligned panics on the
\* assertion for that base (prange first) before any map_page call: no pair is
\* mapped, no descriptor written, no page allocated, no register written.
C29_UnalignedBasePanics ==
    [][(/\ last'.op \in {"map_range", "map_range_with"}
        /\ last'.psize = last'.vsize
        /\ ~(is_aligned(last'.paddr, SIZE) /\ is_aligned(last'.vaddr, SIZE)))
       => (/\ last'.res = IF is_aligned(last'.paddr, SIZE) THEN PanicVAlign ELSE PanicPAlign
           /\ last'.done = 0
           /\ EngineUnchanged)]_vars

\* map_range_with of an aligned prange onto a vrange with an unaligned base, called
\* when tables exist already
C29_Witness ==
    /\ last.op = "map_range_with"
    /\ last.psize = last.vsize /\ last.psize # Zero
    /\ is_aligned(last.paddr, SIZE)
    /\ ~is_aligned(last.vaddr, SIZE)
    /\ last.res = PanicVAlign
    /\ DOMAIN mem # {}

\* map_range of a range with an unaligned base
C29_MapRangeWitness ==
    /\ last.op = "map_range"
    /\ ~is_aligned(last.paddr, SIZE)
    /\ last.res = PanicPAlign
    /\ DOMAIN mem # {}

-----------------------------------------------------------------------------
(* map_page : the tables it allocates *)

\* the mask map_page uses at a level
LevelMask(level) == ShrW(InitMask, (SHIFT - 3) * level)

\* the iterations of a successful map_page when `tables` tables of the path exist
\* before the call: a level whose next table is missing is examined twice
ItersFor(tables) ==
    LET at(level) == IF level < 3 /\ tables <= level + 1
                     THEN << <<level, LevelMask(level)>>, <<level, LevelMask(level)>> >>
                     ELSE << <<level, LevelMask(level)>> >>
    IN  at(0) \o at(1) \o at(2) \o at(3)

NonZeroEntries(table) == {i \in DOMAIN table : table[i] # Zero}

\* C31: a successful map_page allocates one page for every table missing on the path of
\* v (the root included when the regime is unused), one at a time; every such page is a
\* table that did not exist before, holds zero everywhere except in the one entry on the
\* path of v, and is reached from its parent's Table descriptor; the level at which a
\* table was missing is examined twice with the same mask, every other level once; when
\* all tables of the path exist (a page sharing the level-3 table was mapped before) the
\* call allocates nothing.
C31_TablesAllocated ==
    [][(last'.op = "map_page" /\ last'.res = OK)
       => LET missing == MissingTables(last'.reigon, last'.vaddr)
              before == Len(granted)
          IN  /\ Len(granted') = before + missing
              /\ \A i \in 1..before : granted'[i] = granted[i]
              /\ \A i \in (before + 1)..Len(granted') :
                    LET b == granted'[i].base
                    IN  /\ granted'[i].num = FromNat(1)
                        /\ b \notin DOMAIN mem
                        /\ map_to_vaddr(b) \in TablesOf(mem', TtbrOf(TTBR0_EL1', TTBR1_EL1',
                                                                      last'.reigon))
                        /\ Cardinality(NonZeroEntries(mem'[map_to_vaddr(b)])) = 1
              /\ last'.iters = ItersFor(4 - missing)
              /\ missing = 0 => (METADATA' = METADATA /\ DOMAIN mem' = DOMAIN mem)]_vars

\* a map_page that found the root and allocated the three tables below it
C31_Witness ==
    /\ last.op = "map_page" /\ last.res = OK
    /\ last.iters = ItersFor(1)
    /\ Len(granted) >= 4

\* a map_page of a second page under an existing level-3 table
C31_SharedTableWitness ==
    /\ last.op = "map_page" /\ last.res = OK
    /\ last.iters = ItersFor(4)
    /\ last.vaddr = Addr2
    /\ Resolves(mem, TTBR0_EL1, Addr1, Addr1)

-----------------------------------------------------------------------------
(* map_page : the iterations of its loop *)

\* 0xFF80_0000_0000, 0x7F_C000_0000, 0x3FE0_0000, 0x1F_F000
MaskOfLevel == <<InitMask, <<0, 32704, 0>>, <<0, 63, 14680064>>, <<0, 0, 2093056>>>>

\* how often a level is examined in a sequence of iterations
TimesAt(iters, level) == Cardinality({i \in 1..Len(iters) : iters[i][1] = level})

\* C32: every map_page call ends after at most eight iterations of its loop, at most
\* two of them at one level; the first iteration is at level 0, every iteration examines
\* level i with the i-th mask (0xFF80_0000_0000 narrowed by 9 bits per level), the level
\* never decreases and grows by one at a time; a call that returns Ok ended at level 3,
\* where it wrote the leaf; next_lvl().unwrap() never fails.
C32_LoopBounded ==
    last.op = "map_page" =>
      /\ Len(last.iters) <= 8
      /\ \A level \in 0..3 : TimesAt(last.iters, level) <= 2
      /\ \A i \in 1..Len(last.iters) :
            /\ last.iters[i][1] \in 0..3
            /\ last.iters[i][2] = MaskOfLevel[last.iters[i][1] + 1]
            /\ i = 1 => last.iters[i][1] = 0
            /\ i > 1 => last.iters[i][1] - last.iters[i - 1][1] \in {0, 1}
      /\ last.res # PanicNextLvl
      /\ last.res = OK =>
            /\ last.iters[Len(last.iters)][1] = 3
            /\ TimesAt(last.iters, 3) = 1
            /\ LET w == Walk(mem, Ttbr(last.reigon), last.vaddr)
               IN  w.found /\ w.tables = 4

\* a map_page that went through seven iterations, two at each of the levels 0, 1 and 2
C32_Witness ==
    /\ last.op = "map_page" /\ last.res = OK
    /\ Len(last.iters) = 7
    /\ \A level \in 0..2 : TimesAt(last.iters, level) = 2

\* a map_page that stopped at level 3 on a page that was mapped before
C32_MappedWitness ==
    /\ last.op = "map_page" /\ last.res = ErrPage
    /\ last.iters[Len(last.iters)] = <<3, MaskOfLevel[4]>>

-----------------------------------------------------------------------------
(* entry_of_addr under each translation granule *)

\* log2 of Granule4KiB, Granule16KiB, Granule64KiB
GranuleShifts == {12, 14, 16}

\* ENTRY_PER_TABLE = MmuGranule::SIZE >> 3 for a granule
EntriesPerTable(shift) == Pow2(shift - 3)

\* TableSection::entry_of_addr for a granule: [res, idx]
entry_of_addr_for(shift, vaddr, mask) ==
    IF ~is_power_of_two(DivSmall(mask, EntriesPerTable(shift) - 1))
      THEN [res |-> PanicMask, idx |-> 0]
    ELSE LET idx == ShrW(AndW(vaddr, mask), trailing_zeros(mask))
         IN  IF IsSmall(idx) /\ ToNat(idx) < EntriesPerTable(shift)
               THEN [res |-> OK, idx |-> ToNat(idx)]
             ELSE [res |-> PanicIndex, idx |-> EntriesPerTable(shift)]

GranuleVaddrs == { <<h, m, l>> : h \in {0, W16 - 1}, m \in {0, 16, W24 \div 2, W24 - 1},
                                 l \in {0, 4096, W24 - 1} }

\* map_page at let mut mask = 0xFF80_0000_0000, under one of the granules
InitGranule ==
    /\ METADATA = MetadataNew
    /\ TTBR0_EL1 = Zero
    /\ TTBR1_EL1 = Zero
    /\ mem = [b \in {} |-> ZeroPage]
    /\ overflow_checks \in {FALSE}
    /\ granted = <<>>
    /\ held = <<>>
    /\ last = NoCall
    /\ steps = 0
    /\ \E shift \in GranuleShifts, vaddr \in GranuleVaddrs :
          boot = [pc |-> "none", shift |-> shift, vaddr |-> vaddr, mask |-> InitMask, level |-> 0]

\* one iteration of the loop of map_page that goes down a level: the call of entry_of_addr,
\* then mask >>= MmuGranule::SHIFT - 3
GranuleEntryOfAddr ==
    /\ last.res = OK
    /\ GtW(boot.mask, ShlW(FromNat(1), boot.shift))
    /\ \E r \in {entry_of_addr_for(boot.shift, boot.vaddr, boot.mask)} :
          /\ last' = [NoCall EXCEPT !.op = "entry_of_addr", !.vaddr = boot.vaddr,
                                    !.entry = boot.mask, !.level = boot.level,
                                    !.res = r.res, !.done = r.idx]
          /\ boot' = IF r.res # OK THEN boot
                     ELSE [boot EXCEPT !.mask = ShrW(boot.mask, boot.shift - 3),
                                       !.level = boot.level + 1]
    /\ UNCHANGED <<METADATA, TTBR0_EL1, TTBR1_EL1, mem, overflow_checks, granted, held, steps>>

NextGranule == GranuleEntryOfAddr

SpecGranule == InitGranule /\ [][NextGranule]_vars

\* C33: under each granule (4, 16, 64 KiB) and for every virtual address, every mask
\* map_page passes to entry_of_addr passes the power-of-two assertion of that function
\* and the index is below the number of entries of a table.
C33_MaskFitsGranule ==
    last.op = "entry_of_addr" =>
        /\ last.res = OK
        /\ last.done < EntriesPerTable(boot.shift)

\* what holds: under the 4 KiB granule all four masks pass and the index is below 512
C33_MaskFits4KiB ==
    (last.op = "entry_of_addr" /\ boot.shift = 12) =>
        /\ last.res = OK
        /\ last.done < 512
        /\ last.entry = MaskOfLevel[last.level + 1]

\* the last of the four calls under the 4 KiB granule, with the highest index
C33_Witness4KiB ==
    /\ last.op = "entry_of_addr" /\ boot.shift = 12
    /\ last.level = 3 /\ last.done = 511

\* the first call under the 16 KiB granule fails the assertion
C33_Panic16KiB ==
    /\ last.op = "entry_of_addr" /\ boot.shift = 14
    /\ last.level = 0 /\ last.res = PanicMask

-----------------------------------------------------------------------------
(* map_page : what it leaves alone *)

\* bits 47..12 of a virtual address: the page of a regime it names
RegimePage(v) == <<0, v[2], v[3] - (v[3] % 4096)>>

\* virtual pages around the ones the calls map: under the same level-3 table, under the
\* same level-2 table, under the same level-1 table, under another level-0 entry
FramePages ==
    { Addr1, Addr2, AddW(Addr1, Bytes(2)), AddW(Addr1, Bytes(3)), AddW(Addr1, Bytes(7)),
      AddW(Addr1, Bytes(511)), AddW(Addr1, Bytes(512)), Addr3, AddW(Addr3, Bytes(1)),
      <<0, 32768, 0>>, Zero, AddrStack, AddW(AddrStack, Bytes(1)),
      AddW(AddrStack, Bytes(512)), <<65535, 16, 0>>, <<65535, 16, 4096>> }

\* <<reigon, paddr, vaddr, attributes>> of map_page calls whose paths share three, two,
\* one or no table below the root
FrameInputs ==
    { <<0, Addr1, Addr1, AttrRWX>>, <<0, Addr3, Addr2, AttrRO>>,
      <<0, Addr1, AddW(Addr1, Bytes(512)), AttrRWX>>, <<0, Addr2, Addr3, AttrDev>>,
      <<0, Addr3, <<0, 32768, 0>>, AttrRO>>, <<1, Addr1, AddrStack, AttrRWX>> }

CallMapPageFrame ==
    /\ ~Halted
    /\ \E in \in FrameInputs :
          \E r \in {map_page(State, in[1], in[2], in[3], in[4])} :
              /\ Commit(r.st)
              /\ last' = [NoCall EXCEPT !.op = "map_page", !.reigon = in[1], !.paddr = in[2],
                                        !.vaddr = in[3], !.attr = in[4], !.res = r.res,
                                        !.iters = r.iters]
    /\ UNCHANGED <<held, boot, steps>>

NextFrame ==
    \/ CallInit
    \/ CallMapPageFrame

SpecFrame == Init /\ [][NextFrame]_vars

\* what a walk of v gives: the page descriptor that maps it, or unmapped
Translation(m, ttbr, v) ==
    LET w == Walk(m, ttbr, v) IN IF w.found THEN w.desc ELSE Zero

\* C34: a successful map_page(p, v, attrs) changes the translation of v only: every
\* other virtual page of the regime (another value of bits 47..12) is unmapped after the
\* call if it was unmapped before, and mapped by the same descriptor if it was mapped,
\* also when the call inserted tables on the way; the other regime is untouched.
C34_MapPageFrame ==
    [][(last'.op = "map_page" /\ last'.res = OK)
       => /\ \A v \in FramePages :
                RegimePage(v) # RegimePage(last'.vaddr)
                  => Translation(mem', TtbrOf(TTBR0_EL1', TTBR1_EL1', last'.reigon), v)
                       = Translation(mem, Ttbr(last'.reigon), v)
          /\ \A v \in FramePages :
                Translation(mem', TtbrOf(TTBR0_EL1', TTBR1_EL1', 1 - last'.reigon), v)
                  = Translation(mem, Ttbr(1 - last'.reigon), v)
          /\ Translation(mem', TtbrOf(TTBR0_EL1', TTBR1_EL1', last'.reigon), last'.vaddr) # Zero
          /\ Translation(mem, Ttbr(last'.reigon), last'.vaddr) = Zero]_vars

\* a map_page that inserted no table, next to a page mapped before under the same
\* level-3 table, which is still mapped to its own physical page
C34_Witness ==
    /\ last.op = "map_page" /\ last.res = OK
    /\ last.vaddr = Addr2 /\ last.paddr = Addr3
    /\ Len(last.iters) = 4
    /\ OutputAddr(Translation(mem, TTBR0_EL1, Addr1)) = Addr1
    /\ OutputAddr(Translation(mem, TTBR0_EL1, Addr2)) = Addr3

\* a map_page that inserted tables while another page of the regime was mapped
C34_NewTablesWitness ==
    /\ last.op = "map_page" /\ last.res = OK
    /\ Len(last.iters) = 6
    /\ \E v \in FramePages :
          /\ RegimePage(v) # RegimePage(last.vaddr)
          /\ Translation(mem, Ttbr(last.reigon), v) # Zero

-----------------------------------------------------------------------------
(* map_page : the call that meets a mapping *)

AlreadyMapped == {ErrBlock, ErrPage}

\* C35: a map_page call that returns "Address already mapped in a block" or "... in a
\* page" has changed nothing: METADATA (top included), both base registers, every
\* descriptor of every table and the granted pages are as before; the regime's root
\* existed before the call and no level was examined twice, so every table on the path
\* to the conflict existed before the call.
C35_ConflictChangesNothing ==
    [][(last'.op = "map_page" /\ last'.res \in AlreadyMapped)
       => /\ EngineUnchanged
          /\ get_baddr(Ttbr(last'.reigon)) # Zero
          /\ \A level \in 0..3 : TimesAt(last'.iters, level) <= 1
          /\ Len(last'.iters) = Walk(mem, Ttbr(last'.reigon), last'.vaddr).tables
          /\ \A i \in 1..Len(last'.iters) : last'.iters[i][1] = i - 1]_vars

\* a map_page that met a page at level 3, made after tables were allocated
C35_Witness ==
    /\ last.op = "map_page" /\ last.res = ErrPage
    /\ Len(last.iters) = 4
    /\ Len(granted) >= 4
    /\ LtW(METADATA.top, METADATA.end)

\* a map_page that met a block at level 1 or 2
C35_BlockWitness ==
    /\ last.op = "map_page" /\ last.res = ErrBlock
    /\ Len(last.iters) \in {2, 3}

-----------------------------------------------------------------------------
(* The allocator's invariants *)

\* base + num * granule computed without wrapping stays at or below end
EndsWithin(page, end) ==
    /\ ~ShlLoses(page.num, SHIFT)
    /\ ~AddCarry(page.base, PageSize(page)).carry
    /\ LeW(AddW(page.base, PageSize(page)), end)

AllocatorInvariant ==
    /\ LeW(METADATA.start, METADATA.top)
    /\ LeW(METADATA.top, METADATA.end)
    /\ is_aligned(SubW(METADATA.top, METADATA.start), SIZE)
    /\ \A i \in 1..Len(granted) :
          /\ is_aligned(granted[i].base, SIZE)
          /\ LeW(METADATA.start, granted[i].base)
          /\ EndsWithin(granted[i], METADATA.end)
          /\ granted[i].base = IF i = 1 THEN METADATA.start
                               ELSE AddW(granted[i - 1].base, PageSize(granted[i - 1]))

\* C36: after init and any sequence of alloc_pages calls by one caller,
\* start <= top <= end, top - start is a multiple of the granule, every handle returned
\* has an aligned base and lies inside [start, end), and each handle starts where the
\* one before it ends (so no two overlap).
C36_AllocatorInvariant == METADATA.start # Zero => AllocatorInvariant

\* what holds: the same, as long as no request was so large that its byte size or
\* top + size passes 2^64
C36_HoldsWithoutWrap ==
    (/\ METADATA.start # Zero
     /\ \A i \in 1..Len(granted) : LeW(granted[i].num, CapPages))
    => AllocatorInvariant

\* a handle of 2^52 - 1 pages was returned and top is below start
C36_WrappedTop ==
    /\ Len(granted) >= 1
    /\ granted[Len(granted)].num = HugeNum
    /\ LtW(METADATA.top, METADATA.start)

\* the allocator used up to its end by several calls
C36_FullWitness ==
    /\ Len(granted) >= 3
    /\ METADATA.top = METADATA.end
    /\ \A i \in 1..Len(granted) : granted[i].num # Zero /\ LeW(granted[i].num, CapPages)

\* C38: in a build whose arithmetic wraps, for every page count n, zero and counts whose
\* byte size or top + size passes 2^64 included, a successful alloc_pages(n) returns a
\* handle whose range base .. base + n * granule does not extend beyond end, and n does
\* not exceed the pages left between top and end.
C38_NeverBeyondEnd ==
    [][(/\ last'.op = "alloc_pages" /\ last'.res = OK
        /\ ~overflow_checks
        /\ LeW(METADATA.start, METADATA.top) /\ LeW(METADATA.top, METADATA.end))
       => /\ EndsWithin(last'.page, METADATA.end)
          /\ LeW(last'.num, FreePages)]_vars

\* what holds: a request whose byte size and top + size stay below 2^64 succeeds only
\* within the pages left, a request of zero pages included
C38_HoldsWithoutWrap ==
    [][(/\ last'.op = "alloc_pages" /\ last'.res = OK
        /\ LeW(METADATA.start, METADATA.top) /\ LeW(METADATA.top, METADATA.end)
        /\ ~ShlLoses(last'.num, SHIFT)
        /\ ~AddCarry(METADATA.top, ShlW(last'.num, SHIFT)).carry)
       => /\ EndsWithin(last'.page, METADATA.end)
          /\ LeW(last'.num, FreePages)]_vars

\* a request of 2^52 pages, whose byte size wraps to 0, was granted in a wrapping build
C38_WrappedSize ==
    /\ last.op = "alloc_pages" /\ last.res = OK
    /\ ~overflow_checks
    /\ last.num = WrapNum
    /\ last.page.num = WrapNum

\* a request of zero pages was granted at top = end
C38_ZeroAtEnd ==
    /\ last.op = "alloc_pages" /\ last.res = OK
    /\ last.num = Zero
    /\ METADATA.top = METADATA.end

-----------------------------------------------------------------------------
(* map_range_with : the call that fails part way *)

\* the number of pages of a range of whole granules
RangePages(size) == ToNat(ShrW(size, SHIFT))

\* C37: when map_range_with (or map_range through it) returns an error at its i-th
\* page, the i - 1 pages before it are mapped to their physical pages, the pages the
\* call took from the allocator stay granted and every one of them is a table reachable
\* from the regime's root, the i-th page and every page after it translate as they did
\* before the call, and top did not move back.
C37_NotAtomic ==
    [][(last'.op \in {"map_range", "map_range_with"} /\ IsErr(last'.res))
       => LET ttbr == TtbrOf(TTBR0_EL1', TTBR1_EL1', last'.reigon)
              n == RangePages(last'.psize)
          IN  /\ last'.done < n
              /\ \A k \in 0..(last'.done - 1) :
                    Resolves(mem', ttbr, PageAt(last'.vaddr, k), PageAt(last'.paddr, k))
              /\ \A k \in last'.done..(n - 1) :
                    Translation(mem', ttbr, PageAt(last'.vaddr, k))
                      = Translation(mem, Ttbr(last'.reigon), PageAt(last'.vaddr, k))
              /\ Len(granted') >= Len(granted)
              /\ \A i \in 1..Len(granted) : granted'[i] = granted[i]
              /\ \A i \in (Len(granted) + 1)..Len(granted') :
                    map_to_vaddr(granted'[i].base) \in TablesOf(mem', ttbr)
              /\ LeW(METADATA.top, METADATA'.top)]_vars

\* a map_range_with that mapped its first page, allocating tables for it, and failed at
\* the second on a page mapped before
C37_Witness ==
    /\ last.op = "map_range_with" /\ last.res = ErrPage
    /\ last.done = 1
    /\ RangePages(last.psize) = 2
    /\ Resolves(mem, Ttbr(last.reigon), last.vaddr, last.paddr)
    /\ OutputAddr(Translation(mem, Ttbr(last.reigon), PageAt(last.vaddr, 1)))
         # PageAt(last.paddr, 1)

\* a map_range_with that failed for lack of a table page and left the tables it had
\* allocated installed
C37_AllocFailureWitness ==
    /\ last.op \in {"map_range", "map_range_with"} /\ last.res = ErrPageStackOverflow
    /\ METADATA.top = METADATA.end
    /\ get_baddr(Ttbr(last.reigon)) # Zero
    /\ RangePages(last.psize) >= 1

-----------------------------------------------------------------------------
(* The loader's tables under the enabled MMU *)

\* the table pages the engine has: the roots and every table allocated below them,
\* by the address at which the identity mapper makes the engine access them
TablePages == DOMAIN mem

\* a store to the page at va goes to the same physical page
IdentityWritable(va) ==
    LET tr == Translate(mem, TTBR0_EL1, TTBR1_EL1, boot.mmu, va, TRUE)
    IN  tr.ok /\ tr.pa = va

\* C39: in the loader's boot sequence, whenever the MMU is enabled, every table page of
\* both regimes (the roots the base registers name, every table reachable from them,
\* those allocated after enabling included) lies in the pool range [start, end), and the
\* address at which the identity mapper makes the engine read and write it translates,
\* for a store, to the page itself through the low-half tables.
C39_TablesInMappedPool ==
    (boot.pc # "none" /\ boot.mmu) =>
        /\ \A b \in TablePages :
              /\ LeW(METADATA.start, b) /\ LtW(b, METADATA.end)
              /\ b[1] = 0
              /\ IdentityWritable(b)
        /\ \A r \in {0, 1} :
              /\ TablesOf(mem, Ttbr(r)) \subseteq TablePages
              /\ get_baddr(Ttbr(r)) # Zero => map_to_vaddr(get_baddr(Ttbr(r))) \in TablePages

\* at handoff the high half has its own root and tables, allocated after the MMU was
\* enabled
C39_Witness ==
    /\ boot.pc = "handoff"
    /\ boot.mmu
    /\ get_baddr(TTBR1_EL1) # Zero
    /\ Cardinality(TablesOf(mem, TTBR1_EL1)) >= 4
    /\ Cardinality(TablesOf(mem, TTBR0_EL1)) >= 4
    /\ TablesOf(mem, TTBR0_EL1) \cap TablesOf(mem, TTBR1_EL1) = {}

====
